---- MODULE Spec2Model ----
(***************************************************************************)
(* ascii-vibe-codex: the layout engine (compact bar chart, Swiss           *)
(* full-block band in its packaged and its top-level variant), the HTML    *)
(* table flush and the QC validators, as state machines over strings.      *)
(*                                                                         *)
(* A Python str is a sequence of one-character strings; a code point that  *)
(* is not ASCII is written as a token ("FULL_BLOCK", "U6E29").  A float    *)
(* quotient a/b*c is the exact rational (a*c)/b, kept as numerator and     *)
(* denominator.                                                            *)
(***************************************************************************)
EXTENDS Integers, Sequences, FiniteSets, TLC

VARIABLES
    pc,           \* position of the driver: "idle", "rendered", "raised", "tampered", "flushed"
    title,        \* argument title
    labels,       \* list(series.keys()) / argument labels
    values,       \* list(series.values()) / argument values
    width,        \* argument width of render_bar_chart_ascii, of qc_block
    style_pack,   \* argument style_pack
    show_scale,   \* argument show_scale
    ascii_only,   \* argument ascii_only
    total_width,  \* argument total_width of render_swiss_full_block_bar
    bar_width,    \* argument bar_width of render_swiss_full_block_bar
    impl,         \* which render_swiss_full_block_bar ran: "package", "legacy", "none"
    text,         \* the returned str
    clipped,      \* data rows on which the defensive pad/truncate branch ran
    bar_segs,     \* the bar field drawn for each data row (bar, bar_seg)
    fields,       \* the field layout of the band: [L, B, V, W], <<>> when none
    tamper,       \* the edit made to text after rendering: <<kind, bar row>>
    qc,           \* <<result of qc.qc_block>>, <<>> before the call
    vres,         \* <<result of validators.validate_bar_proportions>>, <<>> before the call
    rows,         \* the TableGrid handed to _flush_table_structured
    out,          \* _SwissHTML.out
    amount,       \* the value handed to format_currency: [neg, units, frac] or <<>>
    currency,     \* the currency code handed to format_currency
    seed,         \* <<the seed handed to sparkline>>, <<>> for None
    data_arg,     \* argument data of run_full_validation as <<values>>, <<>> for None
    dom_output,   \* <<argument dom_output>>, <<>> for None
    cli_output,   \* <<argument cli_output>>, <<>> for None
    registry,     \* the module-level STYLE_PACKS of charlib.py as the running calls see it
    calls,        \* the calls in progress, one per thread: [fn, args, pc, local, result]
    parser,       \* the _SwissHTML instance of one call: [buf, in_li, table, out]
    events,       \* the start-tag, end-tag and text events fed to the parser so far
    normalized,   \* what normalize_number returns for the formatted string
    crawler,      \* the SwissASCIICrawler: its config (max_pages, concurrency), visited and to_crawl
    crawl_run     \* one call of crawl(): the semaphore value, the task of every URL, the fetches made

vars == <<pc, title, labels, values, width, style_pack, show_scale, ascii_only, total_width,
          bar_width, impl, text, clipped, bar_segs, fields, tamper, qc, vres, rows, out, amount,
          currency, seed, data_arg, dom_output, cli_output, registry, calls, parser, events,
          normalized, crawler, crawl_run>>

(***************************************************************************)
(* Bounds of the model.                                                    *)
(***************************************************************************)
MaxSeries == 2
MaxWidth == 4
MaxValue == 4
WideWidth == 10
TinyTotal == 5
MinTotal == 12
MaxCols == 2
MaxCells == 4
MaxLines == 3
MaxGroups == 2
MaxSparkLen == 3
MaxTextLines == 2
MaxThreads == 2
MaxEvents == 3
MaxUrls == 3
MaxPages == 2
MaxConcurrency == 2
MaxCrawls == 2

(***************************************************************************)
(* Characters and strings.                                                 *)
(***************************************************************************)
NL == "\n"
FULL_BLOCK == "FULL_BLOCK"
SHADE_DARK == "SHADE_DARK"
BOX_DOUBLE_V == "BOX_DOUBLE_V"

S(c) == <<c>>

Rep(c, n) == [i \in 1..n |-> c]

Max2(a, b) == IF a >= b THEN a ELSE b
Min2(a, b) == IF a <= b THEN a ELSE b
SetMax(T) == CHOOSE x \in T : \A y \in T : y <= x
SeqMax(s) == SetMax({s[i] : i \in DOMAIN s})
Abs(x) == IF x < 0 THEN -x ELSE x

RECURSIVE SeqSum(_)
SeqSum(s) == IF s = <<>> THEN 0 ELSE s[1] + SeqSum(Tail(s))

RECURSIVE Concat(_)
Concat(ss) == IF ss = <<>> THEN <<>> ELSE ss[1] \o Concat(Tail(ss))

\* "\n".join(rows)
RECURSIVE Join(_)
Join(rs) ==
    IF rs = <<>> THEN <<>>
    ELSE IF Len(rs) = 1 THEN rs[1]
    ELSE rs[1] \o S(NL) \o Join(Tail(rs))

\* str.split("\n"): always at least one piece
split_nl(s) ==
    LET nl == {i \in DOMAIN s : s[i] = NL}
        \* the position of the k-th newline; 0 and Len(s) + 1 close the ends
        cut(k) == IF k = 0 THEN 0
                  ELSE IF k > Cardinality(nl) THEN Len(s) + 1
                  ELSE CHOOSE i \in nl : Cardinality({j \in nl : j < i}) = k - 1
    IN [k \in 1..(Cardinality(nl) + 1) |-> SubSeq(s, cut(k - 1) + 1, cut(k) - 1)]

\* str.splitlines(): no piece for an empty string or after a final newline
splitlines(s) ==
    LET p == split_nl(s)
    IN IF p[Len(p)] = <<>> THEN SubSeq(p, 1, Len(p) - 1) ELSE p

DigitChar == <<"0", "1", "2", "3", "4", "5", "6", "7", "8", "9">>

RECURSIVE StrNat(_)
StrNat(n) == IF n < 10 THEN S(DigitChar[n + 1])
             ELSE StrNat(n \div 10) \o S(DigitChar[(n % 10) + 1])

\* str(n) of an int
Str(n) == IF n < 0 THEN S("-") \o StrNat(-n) ELSE StrNat(n)

\* f"{s:>n}" and f"{s:<n}", str.rjust, str.ljust
RJust(s, n) == Rep(" ", n - Len(s)) \o s
LJust(s, n) == s \o Rep(" ", n - Len(s))

\* s[:n] for n >= 0
Prefix(s, n) == SubSeq(s, 1, Min2(n, Len(s)))

Count(s, c) == Cardinality({i \in DOMAIN s : s[i] = c})

StartsWith(s, p) == Len(s) >= Len(p) /\ SubSeq(s, 1, Len(p)) = p
EndsWith(s, p) == Len(s) >= Len(p) /\ SubSeq(s, Len(s) - Len(p) + 1, Len(s)) = p
Contains(s, p) == \E i \in 1..(Len(s) - Len(p) + 1) : SubSeq(s, i, i + Len(p) - 1) = p

RECURSIVE LStrip(_)
LStrip(s) == IF s # <<>> /\ s[1] \in {" ", NL} THEN LStrip(Tail(s)) ELSE s
RECURSIVE RStrip(_)
RStrip(s) == IF s # <<>> /\ s[Len(s)] \in {" ", NL} THEN RStrip(SubSeq(s, 1, Len(s) - 1)) ELSE s
\* str.strip()
Strip(s) == RStrip(LStrip(s))

(***************************************************************************)
(* Rounding.  x is the rational num/den, den # 0.                          *)
(***************************************************************************)
Sgn(d) == IF d < 0 THEN -1 ELSE 1

\* math.floor(num/den)
Floor(num, den) == (num * Sgn(den)) \div (den * Sgn(den))

\* renderer._round_half_up: int(math.floor(x + 0.5))
round_half_up(num, den) == Floor(2 * num + den, 2 * den)

\* the builtin round(x): ties go to the even neighbour
round(num, den) ==
    LET n == num * Sgn(den)
        d == den * Sgn(den)
        q == n \div d
        r == n % d
    IN IF 2 * r < d THEN q
       ELSE IF 2 * r > d THEN q + 1
       ELSE IF q % 2 = 0 THEN q ELSE q + 1

(***************************************************************************)
(* charlib.py, aliases.py                                                  *)
(***************************************************************************)
STYLE_PACKS ==
    [minimal_ascii |-> [fill |-> "=", empty |-> " ", ruler |-> "|"],
     bold_unicode  |-> [fill |-> FULL_BLOCK, empty |-> "SHADE_LIGHT", ruler |-> "|"],
     double_frame  |-> [fill |-> SHADE_DARK, empty |-> "SHADE_LIGHT", ruler |-> "+"],
     hatch_fill    |-> [fill |-> BOX_DOUBLE_V, empty |-> " ", ruler |-> "-"]]

get_style_pack(name) ==
    IF name \in DOMAIN STYLE_PACKS THEN STYLE_PACKS[name] ELSE STYLE_PACKS["minimal_ascii"]

\* the code point of a character; every character written as itself is ASCII
CodePoint(c) ==
    CASE c = "U6E29" -> 28201
      [] c = "U5EA6" -> 24230
      [] c = "U1F525" -> 128293
      [] c = FULL_BLOCK -> 9608
      [] c = SHADE_DARK -> 9619
      [] c = BOX_DOUBLE_V -> 9553
      [] OTHER -> 0

\* _CJK: U+4E00-9FFF, U+3040-30FF, U+AC00-D7AF; _EMOJI: U+1F000-1FAFF, U+2600-27BF
contains_cjk_or_emoji(s) ==
    \E i \in DOMAIN s :
        LET cp == CodePoint(s[i])
        IN \/ cp \in 19968..40959 \/ cp \in 12352..12543 \/ cp \in 44032..55215
           \/ cp \in 126976..129791 \/ cp \in 9728..10175

ONDO == <<"U6E29", "U5EA6">>

\* EMOJI_TO_ASCII.get(ch, ch), on the emoji of the model's labels
EmojiToAscii(ch) == IF ch = "U1F525" THEN <<"F", "I", "R", "E">> ELSE S(ch)

RECURSIVE AliasChars(_)
AliasChars(label) ==
    IF label = <<>> THEN <<>> ELSE EmojiToAscii(label[1]) \o AliasChars(Tail(label))

\* LABEL_ALIASES_CJK holds, of the model's labels, ONDO alone
alias_label(label) ==
    IF label = ONDO THEN <<"O", "N", "D", "O">> ELSE AliasChars(label)

any_cjk_or_emoji(ls) == \E i \in DOMAIN ls : contains_cjk_or_emoji(ls[i])

(***************************************************************************)
(* src/ascii_vibe/renderer.py: the compact bar chart                       *)
(***************************************************************************)
\* scale_bar_len without its clamp to [0, width]
scale_bar_len_unclamped(value, vmax, w) ==
    IF vmax <= 0 THEN 0
    ELSE round_half_up(value * w, vmax)

scale_bar_len(value, vmax, w) ==
    IF vmax <= 0 THEN 0
    ELSE Max2(0, Min2(w, round_half_up(value * w, vmax)))

TICK_POSITIONS == <<0, 1, 2, 3, 4>>   \* quarters: (0.0, 0.25, 0.5, 0.75, 1.0)

\* for w >= 1; with w <= 0 the assignment cols[idx] raises IndexError
build_horizontal_ruler(w, tick, fill) ==
    LET idx == {Min2(w - 1, Max2(0, round_half_up(TICK_POSITIONS[k] * w, 4))) : k \in 1..5}
    IN [i \in 1..w |-> IF (i - 1) \in idx THEN tick ELSE fill]

RECURSIVE TickRow(_, _, _, _, _)
TickRow(k, tick_row, pos_chars, w, vmax) ==
    IF k > 5 THEN tick_row
    ELSE LET lab == Str(round_half_up(TICK_POSITIONS[k] * vmax, 4))
             target == round_half_up(TICK_POSITIONS[k] * w, 4)
             pad == Max2(0, target - pos_chars - Len(lab))
         IN TickRow(k + 1, tick_row \o Rep(" ", pad) \o lab, pos_chars + pad + Len(lab), w, vmax)

\* bar = (fill * n) + (empty * (width - n)), empty being " "
BarSeg(v, vmax, w, fill) ==
    LET n == scale_bar_len(v, vmax, w)
    IN Rep(fill, n) \o Rep(" ", w - n)

NoData == <<"(", " ", "n", "o", " ", "d", "a", "t", "a", " ", ")">>
LabelsLine == <<"L", "a", "b", "e", "l", "s", ":">>

\* the rows of the block, in order, before the join
BarChartRowsWith(ti, ls, vs, w, sp, scale) ==
    LET fill == sp.fill
        vmax == SeqMax(vs)
        total == SeqSum(vs)
        needs_legend == any_cjk_or_emoji(ls)
        resolved_labels == [i \in DOMAIN ls |-> IF needs_legend THEN Str(i) ELSE alias_label(ls[i])]
        label_col_width == Max2(6, SeqMax([i \in DOMAIN ls |-> Len(resolved_labels[i])]))
        max_value_len == SeqMax([i \in DOMAIN vs |-> Len(Str(vs[i]))])
        percents == [i \in DOMAIN vs |->
                        IF total > 0 THEN round_half_up(vs[i] * 100, total) ELSE 0]
        max_percent_len == SeqMax([i \in DOMAIN vs |-> Len(Str(percents[i]))])
        legend == IF needs_legend
                  THEN <<LabelsLine>> \o
                       [i \in DOMAIN ls |-> <<" ", " ">> \o Str(i) \o <<".", " ">> \o alias_label(ls[i])]
                  ELSE <<>>
        bars == [i \in DOMAIN ls |->
                    LET bar == BarSeg(vs[i], vmax, w, fill)
                        tag == S("[") \o LJust(resolved_labels[i], label_col_width) \o S("]")
                        valpct == RJust(Str(vs[i]), max_value_len) \o <<" ", "(">>
                                  \o RJust(Str(percents[i]), max_percent_len) \o <<"%", ")">>
                    IN tag \o S(" ") \o bar \o S(" ") \o valpct]
        label_space == label_col_width + 3
        ruler == IF scale
                 THEN << Rep(" ", label_space) \o build_horizontal_ruler(w, sp.ruler, "-"),
                         TickRow(1, Rep(" ", label_space), 0, w, vmax) >>
                 ELSE <<>>
    IN <<ti>> \o legend \o bars \o ruler

\* the rows with the pack that style_pack and ascii_only select
BarChartRows(ti, ls, vs, w, sp_name, scale, ascii) ==
    BarChartRowsWith(ti, ls, vs, w,
                     get_style_pack(IF ascii THEN "minimal_ascii" ELSE sp_name), scale)

\* [raised, text, bar_segs]: raised is the IndexError of the ruler on a width below 1
render_bar_chart_ascii(ti, ls, vs, w, sp_name, scale, ascii) ==
    IF ls = <<>> THEN [raised |-> FALSE, text |-> ti \o S(NL) \o NoData, bar_segs |-> <<>>]
    ELSE IF scale /\ w < 1 THEN [raised |-> TRUE, text |-> <<>>, bar_segs |-> <<>>]
    ELSE [raised |-> FALSE,
          text |-> Join(BarChartRows(ti, ls, vs, w, sp_name, scale, ascii)),
          bar_segs |-> [i \in DOMAIN ls |->
                           BarSeg(vs[i], SeqMax(vs), w,
                                  get_style_pack(IF ascii THEN "minimal_ascii" ELSE sp_name).fill)]]

(***************************************************************************)
(* src/ascii_vibe/renderer.py: the Swiss full-block band                   *)
(***************************************************************************)
LowerCase == <<"a", "b", "c", "d", "e", "f", "g", "h", "i", "j", "k", "l", "m",
               "n", "o", "p", "q", "r", "s", "t", "u", "v", "w", "x", "y", "z">>
UpperCase == <<"A", "B", "C", "D", "E", "F", "G", "H", "I", "J", "K", "L", "M",
               "N", "O", "P", "Q", "R", "S", "T", "U", "V", "W", "X", "Y", "Z">>

UpperChar(c) ==
    IF \E k \in DOMAIN LowerCase : LowerCase[k] = c
    THEN UpperCase[CHOOSE k \in DOMAIN LowerCase : LowerCase[k] = c]
    ELSE c

\* str.upper()
Upper(s) == [i \in DOMAIN s |-> UpperChar(s[i])]

\* str.center(w): the odd blank goes left when w is odd, right when w is even
Center(s, w) ==
    IF Len(s) >= w THEN s
    ELSE LET marg == w - Len(s)
             left == (marg \div 2) + (IF marg % 2 = 1 /\ w % 2 = 1 THEN 1 ELSE 0)
         IN Rep(" ", left) \o s \o Rep(" ", marg - left)

\* the defensive branch: row[:W] or row + " " * (W - len(row)), for W >= 0
FitRow(row, W) == IF Len(row) > W THEN Prefix(row, W) ELSE LJust(row, W)

\* the label between the brackets, as the row shows it
SwissLabelInner(lab, L_inner) ==
    LET raw0 == Strip(lab)
        raw == IF StartsWith(raw0, S("[")) /\ EndsWith(raw0, S("]"))
               THEN Strip(SubSeq(raw0, 2, Len(raw0) - 1))
               ELSE raw0
    IN Prefix(LJust(Upper(raw), L_inner), L_inner)

\* the bar field of one data row: n = int(round(val / vmax * B))
SwissBarSeg(val, vmax, B) ==
    LET n == round(val * B, vmax)
    IN Rep(FULL_BLOCK, n) \o Rep(" ", B - n)

\* one data row as assembled from the template, before the length test
SwissRow(lab, val, vmax, B, L_inner) ==
    S(FULL_BLOCK) \o S(" ") \o S("[") \o SwissLabelInner(lab, L_inner) \o S("]") \o S(" ")
        \o SwissBarSeg(val, vmax, B) \o S(" ") \o RJust(Str(val), 2) \o S(" ") \o S(FULL_BLOCK)

\* [raised, text, clipped, bar_segs, fields]: raised is the ValueError of L < 4
render_swiss_full_block_bar(ti, ls, vs, W, B) ==
    IF ls = <<>> \/ vs = <<>> \/ Len(ls) # Len(vs)
    THEN [raised |-> FALSE, text |-> ti, clipped |-> {}, bar_segs |-> <<>>, fields |-> <<>>]
    ELSE LET vmax == IF SeqMax(vs) <= 0 THEN 1 ELSE SeqMax(vs)
             L == W - (B + 8)
             L_inner == L - 2
             row(i) == SwissRow(ls[i], vs[i], vmax, B, L_inner)
             data == [i \in DOMAIN ls |-> IF Len(row(i)) # W THEN FitRow(row(i), W) ELSE row(i)]
             lines == << Rep(FULL_BLOCK, W),
                         S(FULL_BLOCK) \o Center(Upper(ti), W - 2) \o S(FULL_BLOCK) >>
                      \o data \o << Rep(FULL_BLOCK, W) >>
         IN IF L < 4
            THEN [raised |-> TRUE, text |-> <<>>, clipped |-> {}, bar_segs |-> <<>>,
                  fields |-> <<>>]
            ELSE [raised |-> FALSE,
                  text |-> Join(lines),
                  clipped |-> {i \in DOMAIN ls : Len(row(i)) # W},
                  bar_segs |-> [i \in DOMAIN ls |-> SwissBarSeg(vs[i], vmax, B)],
                  fields |-> <<[L |-> L, B |-> B, V |-> 2, W |-> W]>>]

(***************************************************************************)
(* src/renderer.py: the top-level variant of the band and its layout step  *)
(***************************************************************************)
\* _scale_bar_len of src/renderer.py: int(round(value / vmax * width)), unclamped
legacy_scale_bar_len(value, vmax, w) ==
    IF vmax <= 0 THEN 0 ELSE round(value * w, vmax)

Bracketed(l) == S("[") \o l \o S("]")

\* [L, B, V, W]; bar_width is read in neither branch
prepare_swiss_fields(ls, vs, W) ==
    LET label_field0 == SeqMax([i \in DOMAIN ls |-> Len(Bracketed(ls[i]))])
        value_field == Max2(2, SeqMax([i \in DOMAIN vs |-> Len(Str(vs[i]))]))
        bar_field0 == W - (label_field0 + value_field + 6)
        shrink == Min2(label_field0 - 3, -bar_field0)
        label_field == IF bar_field0 < 0 THEN label_field0 - shrink ELSE label_field0
        bar_field1 == W - (label_field + value_field + 6)
        bar_field == IF bar_field1 < 1 THEN 1 ELSE bar_field1
    IN [L |-> label_field, B |-> bar_field, V |-> value_field, W |-> W]

LegacyTitleRow(ti, W) ==
    LET inner0 == S(" ") \o ti \o S(" ")
        inner == IF Len(inner0) > W - 2
                 THEN S(" ") \o Prefix(ti, Max2(0, W - 4)) \o S(" ")
                 ELSE inner0
        pad_left == (W - Len(inner)) \div 2
        pad_right == W - Len(inner) - pad_left
    IN Rep(FULL_BLOCK, pad_left) \o inner \o Rep(FULL_BLOCK, pad_right)

LegacyBarSeg(val, vmax, B) ==
    LET n == legacy_scale_bar_len(val, vmax, B)
    IN Rep(FULL_BLOCK, n) \o Rep(" ", B - n)

LegacyRow(lab, val, vmax, f) ==
    LET label_txt == Bracketed(lab)
        label_padded == IF Len(label_txt) < f.L THEN LJust(label_txt, f.L)
                        ELSE Prefix(label_txt, f.L)
    IN S(FULL_BLOCK) \o S(" ") \o label_padded \o S(" ") \o LegacyBarSeg(val, vmax, f.B)
        \o S(" ") \o RJust(Str(val), f.V) \o S(" ") \o S(FULL_BLOCK)

\* [raised, text, clipped, bar_segs, fields]; the assert holds of every call of the model
legacy_render_swiss_full_block_bar(ti, ls, vs, W) ==
    IF ls = <<>>
    THEN [raised |-> FALSE, text |-> ti, clipped |-> {}, bar_segs |-> <<>>, fields |-> <<>>]
    ELSE LET f == prepare_swiss_fields(ls, vs, W)
             vmax == SeqMax(vs)
             row(i) == LegacyRow(ls[i], vs[i], vmax, f)
             data == [i \in DOMAIN ls |-> IF Len(row(i)) # W THEN FitRow(row(i), W) ELSE row(i)]
             lines == << Rep(FULL_BLOCK, W), LegacyTitleRow(ti, W), Rep(FULL_BLOCK, W) >>
                      \o data \o << Rep(FULL_BLOCK, W) >>
         IN [raised |-> FALSE,
             text |-> Join(lines),
             clipped |-> {i \in DOMAIN ls : Len(row(i)) # W},
             bar_segs |-> [i \in DOMAIN ls |-> LegacyBarSeg(vs[i], vmax, f.B)],
             fields |-> <<f>>]

(***************************************************************************)
(* src/ascii_vibe/qc.py                                                    *)
(***************************************************************************)
NonBlank(lines) == {i \in DOMAIN lines : Strip(lines[i]) # <<>>}

qc_validate_row_widths(lines) ==
    Cardinality({Len(lines[i]) : i \in NonBlank(lines)}) <= 1

\* the sub-sequence of the lines that satisfy Test
FilterIdx(lines, keep) ==
    LET F[i \in 0..Len(lines)] ==
            IF i = 0 THEN <<>>
            ELSE IF i \in keep THEN Append(F[i - 1], lines[i]) ELSE F[i - 1]
    IN F[Len(lines)]

\* [raised, ok]: raised is the ZeroDivisionError of values[i] / max_val
qc_validate_bar_proportions(lines, vs, w) ==
    LET bar_lines == FilterIdx(lines, {i \in DOMAIN lines : StartsWith(Strip(lines[i]), S("["))})
        max_val == SeqMax(vs)
        checked == {i \in DOMAIN bar_lines : i <= Len(vs)}
    IN IF bar_lines = <<>> \/ vs = <<>> THEN [raised |-> FALSE, ok |-> TRUE]
       ELSE IF max_val = 0 /\ checked # {} THEN [raised |-> TRUE, ok |-> FALSE]
       ELSE [raised |-> FALSE,
             ok |-> \A i \in checked :
                        round(vs[i] * w, max_val)
                            = Count(bar_lines[i], FULL_BLOCK) + Count(bar_lines[i], "=")]

TopLeft == {"BOX_TL_SINGLE", "BOX_TL_HEAVY", "BOX_TL_DOUBLE", "+"}
TopRight == {"BOX_TR_SINGLE", "BOX_TR_HEAVY", "BOX_TR_DOUBLE", "+"}
BottomLeft == {"BOX_BL_SINGLE", "BOX_BL_HEAVY", "BOX_BL_DOUBLE", "+"}
BottomRight == {"BOX_BR_SINGLE", "BOX_BR_HEAVY", "BOX_BR_DOUBLE", "+"}
frame_chars == TopLeft \cup {"BOX_V_SINGLE", "BOX_V_HEAVY", BOX_DOUBLE_V, "|",
                             "BOX_TR_SINGLE", "BOX_TR_HEAVY", "BOX_TR_DOUBLE",
                             "BOX_BL_SINGLE", "BOX_BL_HEAVY", "BOX_BL_DOUBLE",
                             "BOX_H_SINGLE", "BOX_H_HEAVY", "BOX_H_DOUBLE", "-"}

qc_borders(lines) ==
    \A i \in DOMAIN lines :
        LET line == lines[i]
        IN (line # <<>> /\ \E k \in DOMAIN line : line[k] \in frame_chars) =>
            /\ ~(line[1] \in TopLeft /\ line[Len(line)] \notin TopRight)
            /\ ~(line[1] \in BottomLeft /\ line[Len(line)] \notin BottomRight)

\* data and width are given (not None) in every call of the model
qc_block(txt, vs, w) ==
    LET lines == splitlines(txt)
    IN [width_ok |-> qc_validate_row_widths(lines),
        proportions_ok |-> qc_validate_bar_proportions(lines, vs, w).ok,
        borders_ok |-> qc_borders(lines)]

(***************************************************************************)
(* src/ascii_vibe/validators.py                                            *)
(***************************************************************************)
\* re.compile(r'^\[([^\]]+)\]').match(line.strip())
MatchesBarPattern(line) ==
    LET t == Strip(line)
    IN /\ Len(t) >= 3
       /\ t[1] = "["
       /\ t[2] # "]"
       /\ \E k \in 3..Len(t) : t[k] = "]"

\* [raised, passed, score]: the score is the rational score.num / score.den
validate_bar_proportions(lines, vs, w) ==
    LET bar_lines == FilterIdx(lines, {i \in DOMAIN lines : MatchesBarPattern(lines[i])})
        max_val == SeqMax(vs)
        checked == {i \in DOMAIN bar_lines : i <= Len(vs)}
        expected(i) == round(vs[i] * w, max_val)
        actual(i) == Count(bar_lines[i], FULL_BLOCK) + Count(bar_lines[i], "=")
                        + Count(bar_lines[i], "#")
        diff == [i \in DOMAIN bar_lines |->
                    IF i \in checked THEN Abs(expected(i) - actual(i)) ELSE 0]
        total_error == SeqSum(diff)
        max_possible_error == Len(bar_lines) * w
        one == [num |-> 1, den |-> 1]
    IN IF vs = <<>> \/ bar_lines = <<>>
       THEN [raised |-> FALSE, passed |-> TRUE, score |-> one]
       ELSE IF max_val = 0
       THEN [raised |-> TRUE, passed |-> FALSE, score |-> one]
       ELSE IF total_error = 0
       THEN [raised |-> FALSE, passed |-> TRUE, score |-> one]
       ELSE IF max_possible_error = 0
       THEN [raised |-> TRUE, passed |-> FALSE, score |-> one]
       ELSE LET
                s1 == IF max_possible_error > 0
                      THEN [num |-> Max2(0, max_possible_error - total_error),
                            den |-> max_possible_error]
                      ELSE [num |-> total_error - max_possible_error,
                            den |-> -max_possible_error]
            IN [raised |-> FALSE,
                passed |-> 100 * s1.num >= 95 * s1.den,
                score |-> s1]

(***************************************************************************)
(* src/ascii_vibe/numbers.py: the numeric classifier and the decimal split *)
(***************************************************************************)
Digits == {"0", "1", "2", "3", "4", "5", "6", "7", "8", "9"}
\* what \s matches and str.strip() removes, of the characters that occur here
Whitespace == {" ", NL, "THIN_SPACE"}
CurrencyPrefix == {"$", "EURO", "POUND", "YEN"}

AllDigits(s) == \A i \in DOMAIN s : s[i] \in Digits

\* digits with at most one dot and at least one digit
Mantissa(s) ==
    \/ s # <<>> /\ AllDigits(s)
    \/ \E k \in DOMAIN s :
          /\ s[k] = "."
          /\ Len(s) > 1
          /\ AllDigits(SubSeq(s, 1, k - 1))
          /\ AllDigits(SubSeq(s, k + 1, Len(s)))

Unsign(s) == IF s # <<>> /\ s[1] \in {"+", "-"} THEN Tail(s) ELSE s

Lower(s) == [i \in DOMAIN s |->
                IF \E k \in DOMAIN UpperCase : UpperCase[k] = s[i]
                THEN LowerCase[CHOOSE k \in DOMAIN UpperCase : UpperCase[k] = s[i]]
                ELSE s[i]]

\* whether float(s) returns, for s without blanks and underscores
FloatParses(s) ==
    LET u == Unsign(s)
    IN \/ Mantissa(u)
       \/ \E k \in DOMAIN u :
             /\ u[k] \in {"e", "E"}
             /\ Mantissa(SubSeq(u, 1, k - 1))
             /\ LET x == Unsign(SubSeq(u, k + 1, Len(u))) IN x # <<>> /\ AllDigits(x)
       \/ Lower(u) \in {<<"i", "n", "f">>, <<"n", "a", "n">>,
                        <<"i", "n", "f", "i", "n", "i", "t", "y">>}

\* re.sub(r'[(),\s]', '', s)
RECURSIVE DropChars(_, _)
DropChars(s, cs) ==
    IF s = <<>> THEN <<>>
    ELSE IF s[1] \in cs THEN DropChars(Tail(s), cs)
    ELSE <<s[1]>> \o DropChars(Tail(s), cs)

is_numeric_like(cell) ==
    IF cell = <<>> \/ Strip(cell) = <<>> THEN FALSE
    ELSE LET c0 == Strip(cell)
             c1 == IF c0[1] \in CurrencyPrefix THEN LStrip(Tail(c0)) ELSE c0
             c2 == IF c1 # <<>> /\ c1[Len(c1)] = "%" THEN SubSeq(c1, 1, Len(c1) - 1) ELSE c1
             c3 == DropChars(c2, {"(", ")", ","} \cup Whitespace)
         IN FloatParses(c3)

\* the length of the longest prefix of s made of characters of cs
RECURSIVE RunLen(_, _)
RunLen(s, cs) == IF s # <<>> /\ s[1] \in cs THEN 1 + RunLen(Tail(s), cs) ELSE 0

Reverse(s) == [i \in DOMAIN s |-> s[Len(s) + 1 - i]]

\* <<prefix, left, right>>
split_decimal_for_align(cell) ==
    IF cell = <<>> \/ Strip(cell) = <<>> THEN <<<<>>, <<>>, <<>>>>
    ELSE LET t == Strip(cell)
             p1 == RunLen(t, CurrencyPrefix \cup {"(", "+", "-"})
             p2 == RunLen(SubSeq(t, p1 + 1, Len(t)), Whitespace)
             prefix == SubSeq(t, 1, p1 + p2)
             r == Reverse(t)
             s1 == RunLen(r, {"%", ")"})
             s2 == IF s1 = 0 THEN 0 ELSE RunLen(SubSeq(r, s1 + 1, Len(r)), Whitespace)
             suffix == SubSeq(t, Len(t) - (s1 + s2) + 1, Len(t))
             numeric_part == SubSeq(t, Len(prefix) + 1, Len(t) - Len(suffix))
             dots == {k \in DOMAIN numeric_part : numeric_part[k] = "."}
             dot == CHOOSE k \in dots : \A m \in dots : k <= m
         IN IF dots # {}
            THEN << prefix, SubSeq(numeric_part, 1, dot - 1),
                    SubSeq(numeric_part, dot + 1, Len(numeric_part)) \o suffix >>
            ELSE << prefix, numeric_part, suffix >>

(***************************************************************************)
(* src/ascii_vibe/numbers.py: format_currency.  A value is the float       *)
(* +-(units + frac/256), which a double holds exactly.                     *)
(***************************************************************************)
CURRENCY_SYMBOLS ==
    [USD |-> <<"$">>, EUR |-> <<"EURO">>, GBP |-> <<"POUND">>, JPY |-> <<"YEN">>,
     CHF |-> <<"F", "r">>, CAD |-> <<"C", "$">>, AUD |-> <<"A", "$">>]

THIN_SPACE == "THIN_SPACE"
REGULAR_SPACE == " "

\* value < 0 (false of -0.0)
IsNegative(v) == v.neg /\ (v.units > 0 \/ v.frac > 0)

\* f"{abs_val:.2f}": the exact value rounded to hundredths, ties to even
Fixed2(v) ==
    LET c == round(v.frac * 100, 256)
        whole == v.units + (IF c = 100 THEN 1 ELSE 0)
        cents == c % 100
    IN StrNat(whole) \o S(".") \o S(DigitChar[(cents \div 10) + 1])
           \o S(DigitChar[(cents % 10) + 1])

\* the loop over reversed(integer_part), then "".join(reversed(groups))
InsertSeparators(integer_part, sep) ==
    LET n == Len(integer_part)
        piece(i) == (IF i > 0 /\ i % 3 = 0 THEN <<sep>> ELSE <<>>) \o <<integer_part[n - i]>>
    IN Reverse(Concat([k \in 1..n |-> piece(k - 1)]))

\* f"{integer_part}.{decimal_part}" after the split at "." and the grouping
FormattedAbs(v, ascii) ==
    LET formatted == Fixed2(v)
        dot == CHOOSE i \in DOMAIN formatted : formatted[i] = "."
        integer_part == SubSeq(formatted, 1, dot - 1)
        decimal_part == SubSeq(formatted, dot + 1, Len(formatted))
        sep == IF ascii THEN REGULAR_SPACE ELSE THIN_SPACE
    IN (IF Len(integer_part) > 3 THEN InsertSeparators(integer_part, sep) ELSE integer_part)
           \o S(".") \o decimal_part

SymbolOf(code) == IF code \in DOMAIN CURRENCY_SYMBOLS THEN CURRENCY_SYMBOLS[code] ELSE <<"$">>

\* format_currency with a leading minus where the code puts parentheses
format_currency_minus(v, code, ascii) ==
    IF IsNegative(v) THEN S("-") \o SymbolOf(code) \o FormattedAbs(v, ascii)
    ELSE SymbolOf(code) \o FormattedAbs(v, ascii)

format_currency(v, code, ascii) ==
    IF IsNegative(v) THEN S("(") \o SymbolOf(code) \o FormattedAbs(v, ascii) \o S(")")
    ELSE SymbolOf(code) \o FormattedAbs(v, ascii)

RECURSIVE Pow10(_)
Pow10(k) == IF k = 0 THEN 1 ELSE 10 * Pow10(k - 1)

\* int(digits) of a string of digits, "" counting as 0
RECURSIVE IntOf(_)
IntOf(ds) ==
    IF ds = <<>> THEN 0
    ELSE 10 * IntOf(SubSeq(ds, 1, Len(ds) - 1))
           + (CHOOSE d \in 0..9 : DigitChar[d + 1] = ds[Len(ds)])

\* float(numeric_str) of [-]digits[.digits] as a value in 256ths: the decimals
\* go to the nearest 256th, which f"{x:.2f}" turns back into the same two decimals
FloatOf(numeric_str) ==
    LET u == Unsign(numeric_str)
        dots == {i \in DOMAIN u : u[i] = "."}
        dot == IF dots = {} THEN Len(u) + 1 ELSE CHOOSE i \in dots : TRUE
        decimals == SubSeq(u, dot + 1, Len(u))
        f == round(IntOf(decimals) * 256, Pow10(Len(decimals)))
    IN [neg |-> numeric_str[1] = "-",
        units |-> IntOf(SubSeq(u, 1, dot - 1)) + (IF f = 256 THEN 1 ELSE 0),
        frac |-> f % 256]

\* f"{abs_val:.1f}"
Fixed1(v) ==
    LET t == round(v.frac * 10, 256)
    IN [whole |-> StrNat(v.units + (IF t = 10 THEN 1 ELSE 0)), tenth |-> S(DigitChar[(t % 10) + 1])]

\* format_percent(value) with decimal_places = 1
format_percent(v) ==
    IF v.units = 0 /\ v.frac = 0 THEN <<"0", "%">>
    ELSE (IF v.neg THEN S("-") ELSE S("+")) \o Fixed1(v).whole \o S(".") \o Fixed1(v).tenth
             \o S("%")

\* the plain-number branch of normalize_number
format_plain(v, ascii) ==
    LET sep == IF ascii THEN REGULAR_SPACE ELSE THIN_SPACE
        group(ds) == IF Len(ds) > 3 THEN InsertSeparators(ds, sep) ELSE ds
        minus == IF IsNegative(v) THEN S("-") ELSE <<>>
    IN IF v.units >= 1000
       THEN IF v.frac = 0 THEN minus \o group(StrNat(v.units))
            ELSE minus \o group(Fixed1(v).whole) \o S(".") \o Fixed1(v).tenth
       ELSE IF v.frac # 0 THEN minus \o Fixed1(v).whole \o S(".") \o Fixed1(v).tenth
            ELSE StrNat(v.units)

normalize_number(t, code, ascii) ==
    IF ~is_numeric_like(t) THEN t
    ELSE LET clean == Strip(t)
             is_negative == Contains(clean, S("(")) \/ clean[1] = "-"
             is_currency == \E c \in DOMAIN CURRENCY_SYMBOLS : Contains(clean, CURRENCY_SYMBOLS[c])
             is_percent == clean[Len(clean)] = "%"
             numeric_str == SelectSeq(clean, LAMBDA ch : ch \in Digits \cup {".", "-"})
             parsed == FloatOf(numeric_str)
             v == [parsed EXCEPT !.neg = IF is_negative THEN TRUE ELSE @]
         IN IF ~FloatParses(numeric_str) THEN t
            ELSE IF is_currency THEN format_currency(v, code, ascii)
            ELSE IF is_percent THEN format_percent(v)
            ELSE format_plain(v, ascii)

(***************************************************************************)
(* src/ascii_vibe/transformers/html2ascii.py: the table flush              *)
(***************************************************************************)
\* the cell of column j of row r, "" when the row is short (j counts from 1)
CellAt(r, j) == IF j <= Len(r) THEN r[j] ELSE <<>>

DataRows(grid) == SubSeq(grid, 2, Len(grid))

\* numeric_cols, the columns counted from 1
numeric_cols(grid) ==
    {j \in 1..SeqMax([i \in DOMAIN grid |-> Len(grid[i])]) :
        \E i \in 2..Len(grid) : j <= Len(grid[i]) /\ is_numeric_like(grid[i][j])}

\* col_w with the widths of the first data row alone
col_w_first_row(grid, j) ==
    LET first == IF Len(grid) >= 2 THEN CellAt(grid[2], j) ELSE <<>>
        sp == split_decimal_for_align(first)
    IN IF j \in numeric_cols(grid)
       THEN [left |-> Len(sp[1]) + Len(sp[2]), right |-> Len(sp[3])]
       ELSE [left |-> Len(first), right |-> 0]

\* left_w[j] and right_w[j]
col_w(grid, j) ==
    IF j \in numeric_cols(grid)
    THEN LET have == {i \in 2..Len(grid) : j <= Len(grid[i])}
             sp(i) == split_decimal_for_align(grid[i][j])
         IN [left |-> SetMax({0} \cup {Len(sp(i)[1]) + Len(sp(i)[2]) : i \in have}),
             right |-> SetMax({0} \cup {Len(sp(i)[3]) : i \in have})]
    ELSE [left |-> SetMax({Len(CellAt(grid[i], j)) : i \in DOMAIN grid}), right |-> 0]

fmt_cell(grid, j, cell, is_header) ==
    LET w == col_w(grid, j)
    IN IF j \in numeric_cols(grid) /\ ~is_header
       THEN LET sp == split_decimal_for_align(cell)
                mid == IF sp[3] = <<>> THEN " " ELSE "."
            IN S(" ") \o sp[1] \o RJust(sp[2], w.left - Len(sp[1])) \o S(mid)
                 \o LJust(sp[3], w.right) \o S(" ")
       ELSE S(" ") \o LJust(cell, w.left) \o S(" ")

\* "|" + "|".join(cells) + "|", and the same with "+"
Framed(cells, sep) ==
    S(sep) \o Concat([k \in DOMAIN cells |->
                        IF k < Len(cells) THEN cells[k] \o S(sep) ELSE cells[k]]) \o S(sep)

table_bar(grid) ==
    Framed([j \in 1..Len(grid[1]) |->
               LET w == col_w(grid, j)
               IN Rep("-", w.left + (IF w.right # 0 THEN 1 ELSE 0) + w.right + 2)], "+")

\* the lines _flush_table_structured appends to self.out
flush_table_structured(grid) ==
    IF grid = <<>> THEN <<>>
    ELSE LET header == grid[1]
             head == Framed([j \in DOMAIN header |-> fmt_cell(grid, j, header[j], TRUE)], "|")
             body == [i \in 1..(Len(grid) - 1) |->
                        Framed([j \in DOMAIN header |->
                                   fmt_cell(grid, j, CellAt(grid[i + 1], j), FALSE)], "|")]
         IN <<table_bar(grid), head, table_bar(grid)>> \o body \o <<table_bar(grid), <<>>>>

(***************************************************************************)
(* The inputs of the calls.                                                *)
(***************************************************************************)
None == <<>>

Titles == {<<"T">>, <<"S", "a", "l", "e", "s", " ", "b", "y", " ", "r", "e", "g", "i", "o", "n">>}

LabelPool ==
    << <<"A", "P", "I">>,
       <<"D", "B">>,
       <<"S", "E", "R", "V", "I", "C", "E", "S">>,
       ONDO,
       <<"U1F525", "X">> >>

\* n distinct labels, from the pool's entry `start` on
PoolLabels(start, n) == [i \in 1..n |-> LabelPool[((start + i - 2) % Len(LabelPool)) + 1]]

LabelLists == {PoolLabels(st, n) : st \in 1..Len(LabelPool), n \in 1..MaxSeries} \cup {<<>>}

\* a negative, zero, a tie-maker, the usual maximum and a wider one
ValueSet == {-1, 0, 1, MaxValue, 10 * MaxValue}

Widths == (0..MaxWidth) \cup {WideWidth}

\* <<style_pack, show_scale, ascii_only>>
Options ==
    {<<"bold_unicode", TRUE, FALSE>>, <<"minimal_ascii", TRUE, FALSE>>,
     <<"double_frame", TRUE, FALSE>>, <<"hatch_fill", TRUE, FALSE>>,
     <<"no_such_pack", TRUE, FALSE>>, <<"bold_unicode", TRUE, TRUE>>,
     <<"bold_unicode", FALSE, FALSE>>}

DefaultOptions == <<"bold_unicode", TRUE, FALSE>>

NoSwiss ==
    /\ total_width = 0 /\ bar_width = 0 /\ impl = "none" /\ clipped = {} /\ fields = <<>>

NoTable == rows = <<>> /\ out = <<>>

InitBarWith(opts) ==
    /\ pc = "idle"
    /\ crawl_run = None
    /\ crawler = None
    /\ normalized = None
    /\ events = None
    /\ parser = None
    /\ calls = None
    /\ registry = None
    /\ cli_output = None
    /\ dom_output = None
    /\ data_arg = None
    /\ seed = None
    /\ amount = None /\ currency = None
    /\ title \in {<<"T">>}
    /\ labels \in LabelLists
    /\ values \in [DOMAIN labels -> ValueSet]
    /\ width \in Widths
    /\ \E o \in opts : style_pack = o[1] /\ show_scale = o[2] /\ ascii_only = o[3]
    /\ text = <<>> /\ bar_segs = <<>> /\ tamper = None /\ qc = None /\ vres = None
    /\ NoSwiss /\ NoTable

InitBar == InitBarWith(Options)

InitTamper == InitBarWith({DefaultOptions})

(***************************************************************************)
(* The calls: demo.py renders a chart and hands the text to the checks.    *)
(***************************************************************************)
RenderBarChartAscii ==
    /\ pc = "idle"
    /\ LET r == render_bar_chart_ascii(title, labels, values, width,
                                       style_pack, show_scale, ascii_only)
       IN /\ text' = r.text
          /\ bar_segs' = r.bar_segs
          /\ pc' = IF r.raised THEN "raised" ELSE "rendered"
    /\ UNCHANGED <<title, labels, values, width, style_pack, show_scale, ascii_only, total_width,
                   bar_width, impl, clipped, fields, tamper, qc, vres, rows, out, amount, currency,
                   seed, data_arg, dom_output, cli_output, registry, calls, parser, events,
                   normalized, crawler, crawl_run>>

\* qc_block(text, data, width), then validate_bar_proportions(lines, data, width)
Validate ==
    /\ pc \in {"rendered", "tampered"}
    /\ qc = None
    /\ qc' = <<qc_block(text, values, width)>>
    /\ vres' = <<validate_bar_proportions(splitlines(text), values, width)>>
    /\ UNCHANGED <<pc, title, labels, values, width, style_pack, show_scale, ascii_only,
                   total_width, bar_width, impl, text, clipped, bar_segs, fields, tamper, rows,
                   out, amount, currency, seed, data_arg, dom_output, cli_output, registry, calls,
                   parser, events, normalized, crawler, crawl_run>>

FirstIndex(s, c) == CHOOSE i \in DOMAIN s : s[i] = c /\ \A k \in 1..(i - 1) : s[k] # c

\* one fill glyph put in front of the bar of a bar row
AddGlyph(line, g) ==
    LET p == FirstIndex(line, "]")
    IN SubSeq(line, 1, p + 1) \o S(g) \o SubSeq(line, p + 2, Len(line))

\* the first fill glyph of a bar row taken out
RemoveGlyph(line, g) ==
    LET p == FirstIndex(line, g)
    IN SubSeq(line, 1, p - 1) \o SubSeq(line, p + 1, Len(line))

BarLineIdx(lines) == {i \in DOMAIN lines : StartsWith(lines[i], S("["))}

Tamper(kind, i) ==
    /\ pc = "rendered"
    /\ labels # <<>>
    /\ LET lines == split_nl(text)
           g == get_style_pack(IF ascii_only THEN "minimal_ascii" ELSE style_pack).fill
       IN /\ i \in BarLineIdx(lines)
          /\ kind = "remove" => Count(lines[i], g) > 0
          /\ text' = Join([lines EXCEPT ![i] = IF kind = "add" THEN AddGlyph(@, g)
                                               ELSE RemoveGlyph(@, g)])
    /\ tamper' = <<kind, i>>
    /\ pc' = "tampered"
    /\ qc' = None
    /\ vres' = None
    /\ UNCHANGED <<title, labels, values, width, style_pack, show_scale, ascii_only, total_width,
                   bar_width, impl, clipped, bar_segs, fields, rows, out, amount, currency, seed,
                   data_arg, dom_output, cli_output, registry, calls, parser, events, normalized,
                   crawler, crawl_run>>

TamperAdd == \E i \in 1..(MaxSeries + 3) : Tamper("add", i)
TamperRemove == \E i \in 1..(MaxSeries + 3) : Tamper("remove", i)

NextBar == RenderBarChartAscii \/ Validate

SpecBar == InitBar /\ [][NextBar]_vars

NextTamper == RenderBarChartAscii \/ TamperAdd \/ TamperRemove \/ Validate

SpecTamper == InitTamper /\ [][NextTamper]_vars

(***************************************************************************)
(* The Swiss full-block band, in both variants.                            *)
(***************************************************************************)
SwissLabelPool ==
    << <<"[", "N", "O", "R", "T", "H", "]">>,
       <<"[", "E", "A", "S", "T", " ", "]">>,
       <<"a">>,
       <<"s", "v", "c", "-", "g", "a", "t", "e", "w", "a", "y">>,
       <<" ", "d", "b", " ">> >>

SwissLabels(start, n) ==
    [i \in 1..n |-> SwissLabelPool[((start + i - 2) % Len(SwissLabelPool)) + 1]]

SwissLabelLists ==
    {SwissLabels(st, n) : st \in 1..Len(SwissLabelPool), n \in 1..MaxSeries} \cup {<<>>}

SwissValues == ValueSet \cup {25 * MaxValue}

TotalWidths == {TinyTotal} \cup (MinTotal..(MinTotal + MaxWidth + 2))

InitSwiss ==
    /\ pc = "idle"
    /\ crawl_run = None
    /\ crawler = None
    /\ normalized = None
    /\ events = None
    /\ parser = None
    /\ calls = None
    /\ registry = None
    /\ cli_output = None
    /\ dom_output = None
    /\ data_arg = None
    /\ seed = None
    /\ amount = None /\ currency = None
    /\ title \in Titles
    /\ labels \in SwissLabelLists
    /\ values \in [DOMAIN labels -> SwissValues]
    /\ total_width \in TotalWidths
    /\ bar_width \in 0..MaxWidth
    /\ impl = "none"
    /\ text = <<>> /\ clipped = {} /\ bar_segs = <<>> /\ fields = <<>>
    /\ width = 0 /\ style_pack = "bold_unicode" /\ show_scale = TRUE /\ ascii_only = FALSE
    /\ tamper = None /\ qc = None /\ vres = None
    /\ NoTable

Returned(r, which) ==
    /\ text' = r.text
    /\ clipped' = r.clipped
    /\ bar_segs' = r.bar_segs
    /\ fields' = r.fields
    /\ impl' = which
    /\ pc' = IF r.raised THEN "raised" ELSE "rendered"
    /\ UNCHANGED <<title, labels, values, width, style_pack, show_scale, ascii_only, total_width,
                   bar_width, tamper, qc, vres, rows, out, amount, currency, seed, data_arg,
                   dom_output, cli_output, registry, calls, parser, events, normalized, crawler,
                   crawl_run>>

RenderSwissFullBlockBar ==
    /\ pc = "idle"
    /\ Returned(render_swiss_full_block_bar(title, labels, values, total_width, bar_width),
                "package")

LegacyRenderSwissFullBlockBar ==
    /\ pc = "idle"
    /\ Returned(legacy_render_swiss_full_block_bar(title, labels, values, total_width),
                "legacy")

NextSwiss == RenderSwissFullBlockBar \/ LegacyRenderSwissFullBlockBar

SpecSwiss == InitSwiss /\ [][NextSwiss]_vars

(***************************************************************************)
(* The band handed to the proportion checks with its data and its bar      *)
(* field width, untouched or with one glyph of one bar field changed.      *)
(***************************************************************************)
InitSwissCheck ==
    /\ InitSwiss
    /\ total_width \in {MinTotal + MaxWidth, MinTotal + MaxWidth + 2}

\* where the bar field of a data row starts: cap, space, label field, space
SwissBarStart == total_width - (bar_width + 8) + 4

SwissAddGlyph(line) ==
    SubSeq(line, 1, SwissBarStart - 1) \o S(FULL_BLOCK)
        \o SubSeq(line, SwissBarStart, Len(line))

SwissRemoveGlyph(line) ==
    SubSeq(line, 1, SwissBarStart - 1) \o SubSeq(line, SwissBarStart + 1, Len(line))

TamperSwiss(kind, i) ==
    /\ pc = "rendered"
    /\ tamper = None
    /\ i \in DOMAIN labels
    /\ LET lines == split_nl(text)
       IN /\ Len(lines) = Len(labels) + 3
          /\ kind = "remove" => lines[2 + i][SwissBarStart] = FULL_BLOCK
          /\ text' = Join([lines EXCEPT ![2 + i] = IF kind = "add" THEN SwissAddGlyph(@)
                                                   ELSE SwissRemoveGlyph(@)])
    /\ tamper' = <<kind, i>>
    /\ pc' = "tampered"
    /\ qc' = None
    /\ vres' = None
    /\ UNCHANGED <<title, labels, values, width, style_pack, show_scale, ascii_only, total_width,
                   bar_width, impl, clipped, bar_segs, fields, rows, out, amount, currency, seed,
                   data_arg, dom_output, cli_output, registry, calls, parser, events, normalized,
                   crawler, crawl_run>>

TamperSwissAdd == \E i \in 1..(MaxSeries + 1) : TamperSwiss("add", i)
TamperSwissRemove == \E i \in 1..(MaxSeries + 1) : TamperSwiss("remove", i)

\* qc_block(text, data, bar_width) and validate_bar_proportions(lines, data, bar_width)
ValidateSwiss ==
    /\ pc \in {"rendered", "tampered"}
    /\ qc = None
    /\ qc' = <<qc_block(text, values, bar_width)>>
    /\ vres' = <<validate_bar_proportions(splitlines(text), values, bar_width)>>
    /\ UNCHANGED <<pc, title, labels, values, width, style_pack, show_scale, ascii_only,
                   total_width, bar_width, impl, text, clipped, bar_segs, fields, tamper, rows,
                   out, amount, currency, seed, data_arg, dom_output, cli_output, registry, calls,
                   parser, events, normalized, crawler, crawl_run>>

NextSwissCheck ==
    RenderSwissFullBlockBar \/ TamperSwissAdd \/ TamperSwissRemove \/ ValidateSwiss

SpecSwissCheck == InitSwissCheck /\ [][NextSwissCheck]_vars

(***************************************************************************)
(* The table flush: a grid as handle_endtag hands it over at </table>.     *)
(***************************************************************************)
HeaderPool == {<<"N">>, <<"A", "m", "o", "u", "n", "t">>}

CellPool ==
    {<<"1", "2", ".", "5">>, <<"3", ".", "0", "0">>, <<"7">>, <<"n", "/", "a">>,
     <<"(", "$", "4", ".", "5", ")">>, <<"5", "%">>}

\* a header row and r data rows of c cells each
GridsOf(c, r) ==
    IF c * r > MaxCells THEN {}
    ELSE {<<h>> \o d : h \in [1..c -> HeaderPool], d \in [1..r -> [1..c -> CellPool]]}

\* at most MaxCells data cells
Grids == UNION {GridsOf(c, r) : c \in 1..MaxCols, r \in 0..MaxCells} \cup {<<>>}

\* the grid whose last data row closed one cell short
Ragged(g) == [g EXCEPT ![Len(g)] = SubSeq(@, 1, Len(@) - 1)]

InitTable ==
    /\ pc = "idle"
    /\ crawl_run = None
    /\ crawler = None
    /\ normalized = None
    /\ events = None
    /\ parser = None
    /\ calls = None
    /\ registry = None
    /\ cli_output = None
    /\ dom_output = None
    /\ data_arg = None
    /\ seed = None
    /\ amount = None /\ currency = None
    /\ \E g \in Grids :
          \/ rows = g
          \/ Len(g) >= 2 /\ rows = Ragged(g)
    /\ out = <<>>
    /\ title = <<>> /\ labels = <<>> /\ values = <<>>
    /\ width = 0 /\ style_pack = "bold_unicode" /\ show_scale = TRUE /\ ascii_only = FALSE
    /\ text = <<>> /\ bar_segs = <<>> /\ tamper = None /\ qc = None /\ vres = None
    /\ NoSwiss

FlushTableStructured ==
    /\ pc = "idle"
    /\ out' = out \o flush_table_structured(rows)
    /\ pc' = "flushed"
    /\ UNCHANGED <<title, labels, values, width, style_pack, show_scale, ascii_only, total_width,
                   bar_width, impl, text, clipped, bar_segs, fields, tamper, qc, vres, rows,
                   amount, currency, seed, data_arg, dom_output, cli_output, registry, calls,
                   parser, events, normalized, crawler, crawl_run>>

NextTable == FlushTableStructured

SpecTable == InitTable /\ [][NextTable]_vars

(***************************************************************************)
(* html_to_swiss_ascii: a heading, then a table, then the clamped return.  *)
(***************************************************************************)
SWISS_MAX_LINE == 80
SWISS_MIN_LINE == 40

\* width = max(40, min(width, SWISS_MAX_LINE))
clamp_width(w) == Max2(SWISS_MIN_LINE, Min2(w, SWISS_MAX_LINE))

\* handle_endtag of h1, h2, h3: the lines appended for the buffered text
heading_lines(buf, w) ==
    LET t == Strip(buf)
    IN IF t = <<>> THEN <<>>
       ELSE <<t, Rep("-", Min2(w, Max2(4, Len(t)))), <<>>>>

\* the returned text without its per-line clamp
html_return_unclamped(lines, w) == Join(lines)

\* "\n".join(line[:width] for line in p.out)
html_return(lines, w) == Join([i \in DOMAIN lines |-> Prefix(lines[i], w)])

HeadingLens == {0, 2, 45, 85}

CallerWidths == {0, 10, 39, 40, 41, 60, 80, 81, 100}

HtmlGrids == {<<>>} \cup GridsOf(1, 0) \cup GridsOf(1, 1)

InitHtml ==
    /\ pc = "idle"
    /\ crawl_run = None
    /\ crawler = None
    /\ normalized = None
    /\ events = None
    /\ parser = None
    /\ calls = None
    /\ registry = None
    /\ cli_output = None
    /\ dom_output = None
    /\ data_arg = None
    /\ seed = None
    /\ amount = None /\ currency = None
    /\ title \in {Rep("x", n) : n \in HeadingLens}
    /\ rows \in HtmlGrids
    /\ width \in CallerWidths
    /\ out = <<>>
    /\ labels = <<>> /\ values = <<>>
    /\ style_pack = "bold_unicode" /\ show_scale = TRUE /\ ascii_only = FALSE
    /\ text = <<>> /\ bar_segs = <<>> /\ tamper = None /\ qc = None /\ vres = None
    /\ NoSwiss

HandleEndtagHeading ==
    /\ pc = "idle"
    /\ out' = out \o heading_lines(title, clamp_width(width))
    /\ pc' = "headed"
    /\ UNCHANGED <<title, labels, values, width, style_pack, show_scale, ascii_only, total_width,
                   bar_width, impl, text, clipped, bar_segs, fields, tamper, qc, vres, rows,
                   amount, currency, seed, data_arg, dom_output, cli_output, registry, calls,
                   parser, events, normalized, crawler, crawl_run>>

HandleEndtagTable ==
    /\ pc = "headed"
    /\ out' = out \o flush_table_structured(rows)
    /\ pc' = "closed"
    /\ UNCHANGED <<title, labels, values, width, style_pack, show_scale, ascii_only, total_width,
                   bar_width, impl, text, clipped, bar_segs, fields, tamper, qc, vres, rows,
                   amount, currency, seed, data_arg, dom_output, cli_output, registry, calls,
                   parser, events, normalized, crawler, crawl_run>>

HtmlToSwissAscii ==
    /\ pc = "closed"
    /\ text' = html_return(out, clamp_width(width))
    /\ pc' = "returned"
    /\ UNCHANGED <<title, labels, values, width, style_pack, show_scale, ascii_only, total_width,
                   bar_width, impl, clipped, bar_segs, fields, tamper, qc, vres, rows, out, amount,
                   currency, seed, data_arg, dom_output, cli_output, registry, calls, parser,
                   events, normalized, crawler, crawl_run>>

NextHtml == HandleEndtagHeading \/ HandleEndtagTable \/ HtmlToSwissAscii

SpecHtml == InitHtml /\ [][NextHtml]_vars

(***************************************************************************)
(* validators.validate_border_integrity, and framed texts for the border   *)
(* checks.                                                                 *)
(***************************************************************************)
\* charlib.UNICODE_BOX and ASCII_BOX
BOX ==
    [single |-> [h |-> "BOX_H_SINGLE", v |-> "BOX_V_SINGLE", tl |-> "BOX_TL_SINGLE",
                 tr |-> "BOX_TR_SINGLE", bl |-> "BOX_BL_SINGLE", br |-> "BOX_BR_SINGLE"],
     heavy  |-> [h |-> "BOX_H_HEAVY", v |-> "BOX_V_HEAVY", tl |-> "BOX_TL_HEAVY",
                 tr |-> "BOX_TR_HEAVY", bl |-> "BOX_BL_HEAVY", br |-> "BOX_BR_HEAVY"],
     double |-> [h |-> "BOX_H_DOUBLE", v |-> BOX_DOUBLE_V, tl |-> "BOX_TL_DOUBLE",
                 tr |-> "BOX_TR_DOUBLE", bl |-> "BOX_BL_DOUBLE", br |-> "BOX_BR_DOUBLE"],
     simple |-> [h |-> "-", v |-> "|", tl |-> "+", tr |-> "+", bl |-> "+", br |-> "+"]]

UnicodeStyles == {"single", "heavy", "double"}

\* unicode_sets[style]
unicode_set(style) == {BOX[style][part] : part \in {"h", "v", "tl", "tr", "bl", "br"}}

ascii_set == {"-", "|", "+"}

\* [passed, score]: the score is 1 or 1/2
validate_border_integrity(lines) ==
    LET chars == UNION {{lines[i][k] : k \in DOMAIN lines[i]} : i \in DOMAIN lines}
        border_lines == {i \in DOMAIN lines :
                            \E k \in DOMAIN lines[i] :
                                \/ lines[i][k] \in ascii_set
                                \/ \E st \in UnicodeStyles : lines[i][k] \in unicode_set(st)}
        mixed_styles == Cardinality({st \in UnicodeStyles : chars \cap unicode_set(st) # {}}) > 1
        table_lines == {i \in DOMAIN lines :
                           \E k \in DOMAIN lines[i] :
                               lines[i][k] \in {"|", "BOX_V_SINGLE", BOX_DOUBLE_V}}
        uneven == /\ Cardinality(table_lines) >= 3
                  /\ Cardinality({Len(lines[i]) : i \in table_lines}) > 2
        ok == border_lines = {} \/ (~mixed_styles /\ ~uneven)
    IN [passed |-> ok, score |-> IF ok THEN [num |-> 1, den |-> 1] ELSE [num |-> 1, den |-> 2]]

\* validators.validate_row_widths with every line kept, as allow_empty=False does
validate_row_widths_all_lines(lines, allow_empty) ==
    LET widths == {Len(lines[i]) : i \in DOMAIN lines}
    IN IF Cardinality(widths) <= 1
       THEN [passed |-> TRUE, score |-> [num |-> 1, den |-> 1]]
       ELSE [passed |-> FALSE, score |-> [num |-> 0, den |-> 1]]

\* validators.validate_row_widths: [passed, score]
validate_row_widths(lines, allow_empty) ==
    LET filtered == IF allow_empty THEN NonBlank(lines) ELSE DOMAIN lines
        unique_widths == {Len(lines[i]) : i \in filtered}
    IN IF lines = <<>> \/ filtered = {} \/ Cardinality(unique_widths) = 1
       THEN [passed |-> TRUE, score |-> [num |-> 1, den |-> 1]]
       ELSE [passed |-> FALSE, score |-> [num |-> 0, den |-> 1]]

\* validators.validate_line_length: [passed, score]
validate_line_length(lines, min_chars, max_chars) ==
    LET content == {i \in DOMAIN lines : Len(Strip(lines[i])) # 0}
        too_short == Cardinality({i \in content : Len(Strip(lines[i])) < min_chars})
        too_long == Cardinality({i \in content : /\ Len(Strip(lines[i])) >= min_chars
                                                  /\ Len(Strip(lines[i])) > max_chars})
        total_violations == too_short + too_long
        content_lines == Cardinality(content)
        score == [num |-> Max2(0, content_lines - total_violations), den |-> content_lines]
    IN IF lines = <<>> \/ total_violations = 0
       THEN [passed |-> TRUE, score |-> [num |-> 1, den |-> 1]]
       ELSE [passed |-> 10 * score.num >= 9 * score.den, score |-> score]

accent_chars ==
    {"!", "@", "#", "$", "%", "^", "&", "*", "(", ")", "_", "+", "=", "[", "]", "{", "}",
     "|", "\\", ":", ";", "\"", "'", "<", ">", "?", "/", "~", "BACKTICK"}

decorative_unicode ==
    {"U2581", "U2582", "U2583", "U2584", "U2585", "U2586", "U2587", FULL_BLOCK,
     "U258F", "U258E", "U258D", "U258C", "U258B", "U258A", "U2589", "U2571", "U2572"}
        \cup UNION {unicode_set(st) : st \in UnicodeStyles}

\* the score of validate_accent_budget before max(0.0, ...) is applied
accent_score(line_violations, n_lines, total_accents, total_chars) ==
    [num |-> n_lines * total_chars - line_violations * total_chars
                 - 10 * total_accents * n_lines,
     den |-> n_lines * total_chars]

\* validate_accent_budget with the score left as computed, below 0 included
validate_accent_budget_unclamped(txt, max_accents_per_line) ==
    LET lines == splitlines(txt)
        kept == {i \in DOMAIN lines : Strip(lines[i]) # <<>>}
        line_accents(i) == Cardinality({k \in DOMAIN lines[i] :
                                           lines[i][k] \in accent_chars \cup decorative_unicode})
        total_accents == SeqSum([i \in DOMAIN lines |-> IF i \in kept THEN line_accents(i) ELSE 0])
        total_chars == SeqSum([i \in DOMAIN lines |-> IF i \in kept THEN Len(lines[i]) ELSE 0])
        line_violations == Cardinality({i \in kept : line_accents(i) > max_accents_per_line})
    IN IF line_violations = 0 /\ ~(20 * total_accents > total_chars)
       THEN [passed |-> TRUE, score |-> [num |-> 1, den |-> 1]]
       ELSE [passed |-> FALSE,
             score |-> accent_score(line_violations, Len(lines), total_accents, total_chars)]

\* validators.validate_accent_budget with max_total_ratio = 0.05: [passed, score]
validate_accent_budget(txt, max_accents_per_line) ==
    LET lines == splitlines(txt)
        kept == {i \in DOMAIN lines : Strip(lines[i]) # <<>>}
        line_accents(i) == Cardinality({k \in DOMAIN lines[i] :
                                           lines[i][k] \in accent_chars \cup decorative_unicode})
        total_accents == SeqSum([i \in DOMAIN lines |-> IF i \in kept THEN line_accents(i) ELSE 0])
        total_chars == SeqSum([i \in DOMAIN lines |-> IF i \in kept THEN Len(lines[i]) ELSE 0])
        line_violations == Cardinality({i \in kept : line_accents(i) > max_accents_per_line})
        raw == accent_score(line_violations, Len(lines), total_accents, total_chars)
    IN IF line_violations = 0 /\ ~(20 * total_accents > total_chars)
       THEN [passed |-> TRUE, score |-> [num |-> 1, den |-> 1]]
       ELSE [passed |-> FALSE, score |-> [num |-> Max2(0, raw.num), den |-> raw.den]]

\* current_row of calculate_levenshtein_distance after j steps of the inner loop
RECURSIVE LevCurrentRow(_, _, _, _, _)
LevCurrentRow(previous_row, c1, s2, i, j) ==
    IF j = 0 THEN <<i + 1>>
    ELSE LET current_row == LevCurrentRow(previous_row, c1, s2, i, j - 1)
             insertions == previous_row[j + 1] + 1
             deletions == current_row[j] + 1
             substitutions == previous_row[j] + (IF c1 # s2[j] THEN 1 ELSE 0)
         IN Append(current_row, Min2(insertions, Min2(deletions, substitutions)))

\* previous_row after k steps of the outer loop
RECURSIVE LevPreviousRow(_, _, _)
LevPreviousRow(s1, s2, k) ==
    IF k = 0 THEN [j \in 1..(Len(s2) + 1) |-> j - 1]
    ELSE LevCurrentRow(LevPreviousRow(s1, s2, k - 1), s1[k], s2, k - 1, Len(s2))

calculate_levenshtein_distance(a, b) ==
    LET s1 == IF Len(a) < Len(b) THEN b ELSE a
        s2 == IF Len(a) < Len(b) THEN a ELSE b
    IN IF Len(s2) = 0 THEN Len(s1) ELSE LevPreviousRow(s1, s2, Len(s1))[Len(s2) + 1]

\* re.sub(r'\s+', ' ', s.strip())
RECURSIVE CollapseWs(_)
CollapseWs(s) ==
    IF s = <<>> THEN <<>>
    ELSE IF s[1] \in {" ", NL} THEN <<" ">> \o CollapseWs(LStrip(s))
    ELSE <<s[1]>> \o CollapseWs(Tail(s))

\* validators.validate_parity with threshold = 0.01: [passed, score]
validate_parity(dom, cli) ==
    LET dom_normalized == CollapseWs(Strip(dom))
        cli_normalized == CollapseWs(Strip(cli))
        distance == calculate_levenshtein_distance(dom_normalized, cli_normalized)
        max_len == Max2(Len(dom_normalized), Len(cli_normalized))
    IN IF dom = <<>> \/ cli = <<>> THEN [passed |-> FALSE, score |-> [num |-> 0, den |-> 1]]
       ELSE IF max_len = 0 THEN [passed |-> TRUE, score |-> [num |-> 1, den |-> 1]]
       ELSE [passed |-> 100 * distance <= max_len,
             score |-> [num |-> max_len - distance, den |-> max_len]]

\* validators.run_full_validation with config = None: [raised, results]; the
\* arguments dat, dom and cli are <<>> for None and <<x>> for a value x
run_full_validation(txt, dat, w, dom, cli) ==
    LET lines == splitlines(txt)
        basic == << validate_row_widths(lines, TRUE),
                    validate_line_length(lines, 45, 72),
                    validate_accent_budget(txt, 3),
                    validate_border_integrity(lines) >>
        bars == validate_bar_proportions(lines, dat[1], w)
        with_bars == IF dat # <<>>
                     THEN Append(basic, [passed |-> bars.passed, score |-> bars.score])
                     ELSE basic
        all == IF dom # <<>> /\ cli # <<>>
               THEN Append(with_bars, validate_parity(dom[1], cli[1]))
               ELSE with_bars
    IN IF dat # <<>> /\ bars.raised
       THEN [raised |-> TRUE, results |-> <<>>]
       ELSE [raised |-> FALSE, results |-> all]

FrameStyles == {"single", "heavy", "double", "simple"}

\* what a frame line may end with: a closing corner of any style, or the
\* horizontal glyph of its own style (no corner)
Closers(style, corner) == {BOX[st][corner] : st \in FrameStyles} \cup {BOX[style].h}

\* a frame line of style `style` opening with its `open` corner
FrameLine(style, open, closer) == <<BOX[style][open], BOX[style].h, BOX[style].h, closer>>

\* a framed text: top line, one content line, bottom line
FramedText(style, top_closer, bottom_closer) ==
    Join(<< FrameLine(style, "tl", top_closer),
            <<BOX[style].v, " ", " ", BOX[style].v>>,
            FrameLine(style, "bl", bottom_closer) >>)

InitFrame ==
    /\ pc = "framed"
    /\ crawl_run = None
    /\ crawler = None
    /\ normalized = None
    /\ events = None
    /\ parser = None
    /\ calls = None
    /\ registry = None
    /\ cli_output = None
    /\ dom_output = None
    /\ data_arg = None
    /\ seed = None
    /\ amount = None /\ currency = None
    /\ \E st \in FrameStyles :
          /\ style_pack = st
          /\ \E c1 \in Closers(st, "tr"), c2 \in Closers(st, "br") :
                text = FramedText(st, c1, c2)
    /\ title = <<>> /\ labels = <<>> /\ values = <<>> /\ width = 0
    /\ show_scale = TRUE /\ ascii_only = FALSE
    /\ bar_segs = <<>> /\ tamper = None /\ qc = None /\ vres = None
    /\ NoSwiss /\ NoTable

\* qc_block(text)
QcBlockFrame ==
    /\ pc = "framed"
    /\ qc = None
    /\ qc' = <<qc_block(text, <<>>, 0)>>
    /\ UNCHANGED <<pc, title, labels, values, width, style_pack, show_scale, ascii_only,
                   total_width, bar_width, impl, text, clipped, bar_segs, fields, tamper, vres,
                   rows, out, amount, currency, seed, data_arg, dom_output, cli_output, registry,
                   calls, parser, events, normalized, crawler, crawl_run>>

\* validate_border_integrity(text.splitlines())
ValidateBorderIntegrity ==
    /\ pc = "framed"
    /\ vres = None
    /\ vres' = <<validate_border_integrity(splitlines(text))>>
    /\ UNCHANGED <<pc, title, labels, values, width, style_pack, show_scale, ascii_only,
                   total_width, bar_width, impl, text, clipped, bar_segs, fields, tamper, qc, rows,
                   out, amount, currency, seed, data_arg, dom_output, cli_output, registry, calls,
                   parser, events, normalized, crawler, crawl_run>>

NextFrame == QcBlockFrame \/ ValidateBorderIntegrity

SpecFrame == InitFrame /\ [][NextFrame]_vars

(***************************************************************************)
(* src/ascii_vibe/procgen.py.  A 32-bit word is its bits, bit 0 the least. *)
(***************************************************************************)
RECURSIVE Pow2(_)
Pow2(k) == IF k = 0 THEN 1 ELSE 2 * Pow2(k - 1)

\* seed & 0xFFFFFFFF of an int 0 <= n < 2^31
Word(n) == [i \in 0..31 |-> IF i = 31 THEN 0 ELSE (n \div Pow2(i)) % 2]

Xor(a, b) == [i \in 0..31 |-> (a[i] + b[i]) % 2]
\* (x << k) & 0xFFFFFFFF and x >> k
Shl(a, k) == [i \in 0..31 |-> IF i >= k THEN a[i - k] ELSE 0]
Shr(a, k) == [i \in 0..31 |-> IF i + k <= 31 THEN a[i + k] ELSE 0]

xorshift32(n) ==
    LET x0 == Word(n)
        x1 == Xor(x0, Shl(x0, 13))
        x2 == Xor(x1, Shr(x1, 17))
        x3 == Xor(x2, Shl(x2, 5))
    IN x3

\* x % m of a word, from the top bit down
RECURSIVE WordModFrom(_, _, _)
WordModFrom(a, i, m) ==
    IF i > 31 THEN 0 ELSE (2 * WordModFrom(a, i + 1, m) + a[i]) % m

WordMod(a, m) == WordModFrom(a, 0, m)

SPARK_UNI == <<"U2581", "U2582", "U2583", "U2584", "U2585", "U2586", "U2587", FULL_BLOCK>>
SPARK_ASC == <<".", "-", "=", "#">>

SeqMin(s) == CHOOSE m \in {s[i] : i \in DOMAIN s} : \A i \in DOMAIN s : s[i] >= m

\* the palette position (from 0) of value number i (from 1); sd is <<seed>> or <<>>
spark_idx(vals, n, sd, i) ==
    LET lo == SeqMin(vals)
        hi == SeqMax(vals)
        idx0 == Max2(0, Min2(n - 1, round((vals[i] - lo) * (n - 1), hi - lo)))
        variation_seed == sd[1] + (i - 1) * 1337
    IN IF sd # <<>> /\ WordMod(xorshift32(variation_seed), 10) = 0
       THEN Max2(0, Min2(n - 1, idx0 + WordMod(xorshift32(variation_seed * 2), 3) - 1))
       ELSE idx0

sparkline(vals, ascii, sd) ==
    LET palette == IF ascii THEN SPARK_ASC ELSE SPARK_UNI
    IN IF vals = <<>> THEN <<>>
       ELSE IF SeqMax(vals) = SeqMin(vals) THEN [i \in DOMAIN vals |-> palette[1]]
       ELSE [i \in DOMAIN vals |-> palette[spark_idx(vals, Len(palette), sd, i) + 1]]

(***************************************************************************)
(* One call of format_currency.                                            *)
(***************************************************************************)
UnitPool ==
    {Pow10(k) - 1 : k \in 0..(3 * MaxGroups)} \cup {Pow10(k) : k \in 0..(3 * MaxGroups - 1)}
        \cup {1234, 456789}

FracPool == {0, 1, 32, 96, 128, 227, 255}

Amounts == [neg : BOOLEAN, units : UnitPool, frac : FracPool]

CurrencyCodes == DOMAIN CURRENCY_SYMBOLS \cup {"XXX"}

InitCurrency ==
    /\ pc = "idle"
    /\ crawl_run = None
    /\ crawler = None
    /\ normalized = None
    /\ events = None
    /\ parser = None
    /\ calls = None
    /\ registry = None
    /\ cli_output = None
    /\ dom_output = None
    /\ data_arg = None
    /\ seed = None
    /\ amount \in Amounts
    /\ currency \in CurrencyCodes
    /\ ascii_only \in BOOLEAN
    /\ title = <<>> /\ labels = <<>> /\ values = <<>>
    /\ width = 0 /\ style_pack = "bold_unicode" /\ show_scale = TRUE
    /\ text = <<>> /\ tamper = None /\ qc = None /\ vres = None
    /\ bar_segs = <<>>
    /\ NoSwiss
    /\ NoTable

FormatCurrency ==
    /\ pc = "idle"
    /\ text' = format_currency(amount, currency, ascii_only)
    /\ pc' = "formatted"
    /\ UNCHANGED <<title, labels, values, width, style_pack, show_scale, ascii_only, total_width,
                   bar_width, impl, clipped, bar_segs, fields, tamper, qc, vres, rows, out, amount,
                   currency, seed, data_arg, dom_output, cli_output, registry, calls, parser,
                   events, normalized, crawler, crawl_run>>

NextCurrency == FormatCurrency

SpecCurrency == InitCurrency /\ [][NextCurrency]_vars

\* the formatted string handed back to normalize_number with the same code and mode
NormalizeNumber ==
    /\ pc = "formatted"
    /\ normalized' = <<normalize_number(text, currency, ascii_only)>>
    /\ pc' = "normalized"
    /\ UNCHANGED <<title, labels, values, width, style_pack, show_scale, ascii_only, total_width,
                   bar_width, impl, text, clipped, bar_segs, fields, tamper, qc, vres, rows, out,
                   amount, currency, seed, data_arg, dom_output, cli_output, registry, calls,
                   parser, events, crawler, crawl_run>>

NextNormalize == FormatCurrency \/ NormalizeNumber

SpecNormalize == InitCurrency /\ [][NextNormalize]_vars

(***************************************************************************)
(* A list of lines handed to the width check of qc.py and of validators.py *)
(***************************************************************************)
LinePool ==
    { <<>>, <<" ">>, <<" ", " ", " ">>, <<" ", " ">>,
      <<"a", "b">>, <<"a", " ">>, <<" ", "a">>, <<"a", "b", "c">>, <<" ", "c", " ">> }

LineLists == UNION {[1..n -> LinePool] : n \in 0..MaxLines}

InitWidths ==
    /\ pc = "lines"
    /\ crawl_run = None
    /\ crawler = None
    /\ normalized = None
    /\ events = None
    /\ parser = None
    /\ calls = None
    /\ registry = None
    /\ cli_output = None
    /\ dom_output = None
    /\ data_arg = None
    /\ seed = None
    /\ amount = None /\ currency = None
    /\ out \in LineLists
    /\ title = <<>> /\ labels = <<>> /\ values = <<>>
    /\ width = 0 /\ style_pack = "bold_unicode" /\ show_scale = TRUE /\ ascii_only = FALSE
    /\ text = <<>> /\ tamper = None /\ qc = None /\ vres = None
    /\ rows = <<>> /\ bar_segs = <<>>
    /\ NoSwiss

QcValidateRowWidths ==
    /\ pc = "lines"
    /\ qc = None
    /\ qc' = <<qc_validate_row_widths(out)>>
    /\ UNCHANGED <<pc, title, labels, values, width, style_pack, show_scale, ascii_only,
                   total_width, bar_width, impl, text, clipped, bar_segs, fields, tamper, vres,
                   rows, out, amount, currency, seed, data_arg, dom_output, cli_output, registry,
                   calls, parser, events, normalized, crawler, crawl_run>>

ValidateRowWidths ==
    /\ pc = "lines"
    /\ vres = None
    /\ vres' = <<validate_row_widths(out, TRUE)>>
    /\ UNCHANGED <<pc, title, labels, values, width, style_pack, show_scale, ascii_only,
                   total_width, bar_width, impl, text, clipped, bar_segs, fields, tamper, qc, rows,
                   out, amount, currency, seed, data_arg, dom_output, cli_output, registry, calls,
                   parser, events, normalized, crawler, crawl_run>>

NextWidths == QcValidateRowWidths \/ ValidateRowWidths

SpecWidths == InitWidths /\ [][NextWidths]_vars

(***************************************************************************)
(* One call of sparkline.                                                  *)
(***************************************************************************)
DemoVals == <<1, 3, 2, 5, 4>>

SparkValues == {0, 1, 2, 3, 5, 6, 12, 14}

SparkLists == UNION {[1..n -> SparkValues] : n \in 0..MaxSparkLen} \cup {DemoVals}

Seeds == {None, <<42>>, <<99>>, <<1337>>}

InitSpark ==
    /\ pc = "idle"
    /\ crawl_run = None
    /\ crawler = None
    /\ normalized = None
    /\ events = None
    /\ parser = None
    /\ calls = None
    /\ registry = None
    /\ cli_output = None
    /\ dom_output = None
    /\ data_arg = None
    /\ values \in SparkLists
    /\ ascii_only \in BOOLEAN
    /\ seed \in Seeds
    /\ amount = None /\ currency = None
    /\ title = <<>> /\ labels = <<>>
    /\ width = 0 /\ style_pack = "bold_unicode" /\ show_scale = TRUE
    /\ text = <<>> /\ tamper = None /\ qc = None /\ vres = None
    /\ bar_segs = <<>>
    /\ NoSwiss
    /\ NoTable

Sparkline ==
    /\ pc = "idle"
    /\ text' = sparkline(values, ascii_only, seed)
    /\ pc' = "sparked"
    /\ UNCHANGED <<title, labels, values, width, style_pack, show_scale, ascii_only, total_width,
                   bar_width, impl, clipped, bar_segs, fields, tamper, qc, vres, rows, out, amount,
                   currency, seed, data_arg, dom_output, cli_output, registry, calls, parser,
                   events, normalized, crawler, crawl_run>>

NextSpark == Sparkline

SpecSpark == InitSpark /\ [][NextSpark]_vars

(***************************************************************************)
(* One call of validators.run_full_validation.                             *)
(***************************************************************************)
TextLinePool ==
    { <<" ", " ">>, Rep("x", 44), Rep("x", 45), Rep("x", 73), <<"!", "!", "!", "!">>,
      <<"[", "A", "]", " ", FULL_BLOCK>>, <<"|", " ", "a">> }

Texts == {Join(ls) : ls \in UNION {[1..n -> TextLinePool] : n \in 0..MaxTextLines}}

DataArgs == {None, <<<<>>>>, <<<<4>>>>, <<<<0>>>>, <<<<-2, 4>>>>}

DomOutputs == {None, <<<<>>>>, <<<<"a", "b">>>>, <<<<"a", " ", NL, " ", "b">>>>}

CliOutputs == {None, <<<<"a", "b">>>>, <<<<"a", "b", "c", "d">>>>, <<<<" ">>>>}

InitValidation ==
    /\ pc = "idle"
    /\ crawl_run = None
    /\ crawler = None
    /\ normalized = None
    /\ events = None
    /\ parser = None
    /\ calls = None
    /\ registry = None
    /\ text \in Texts
    /\ data_arg \in DataArgs
    /\ width \in 1..2
    /\ dom_output \in DomOutputs
    /\ cli_output \in CliOutputs
    /\ amount = None /\ currency = None /\ seed = None
    /\ title = <<>> /\ labels = <<>> /\ values = <<>>
    /\ style_pack = "bold_unicode" /\ show_scale = TRUE /\ ascii_only = FALSE
    /\ tamper = None /\ qc = None /\ vres = None
    /\ bar_segs = <<>>
    /\ NoSwiss
    /\ NoTable

RunFullValidation ==
    /\ pc = "idle"
    /\ vres' = <<run_full_validation(text, data_arg, width, dom_output, cli_output)>>
    /\ pc' = IF vres'[1].raised THEN "raised" ELSE "validated"
    /\ UNCHANGED <<title, labels, values, width, style_pack, show_scale, ascii_only, total_width,
                   bar_width, impl, text, clipped, bar_segs, fields, tamper, qc, rows, out, amount,
                   currency, seed, data_arg, dom_output, cli_output, registry, calls, parser,
                   events, normalized, crawler, crawl_run>>

NextValidation == RunFullValidation

SpecValidation == InitValidation /\ [][NextValidation]_vars

(***************************************************************************)
(* The parser of html2ascii.py fed event by event.  A missing table, row   *)
(* or cell (None in the code) is <<>>, a present one is wrapped in <<_>>.  *)
(***************************************************************************)
BULLET == <<"-", " ">>

\* the words of a text whose runs of whitespace were collapsed
RECURSIVE Words(_)
Words(s) ==
    IF s = <<>> THEN <<>>
    ELSE LET sp == {i \in DOMAIN s : s[i] = " "}
         IN IF sp = {} THEN <<s>>
            ELSE LET k == CHOOSE i \in sp : \A m \in sp : i <= m
                 IN <<SubSeq(s, 1, k - 1)>> \o Words(SubSeq(s, k + 1, Len(s)))

\* textwrap.wrap(chunk, width, break_long_words=False) of collapsed text
RECURSIVE WrapWords(_, _, _)
WrapWords(ws, cur, w) ==
    IF ws = <<>> THEN (IF cur = <<>> THEN <<>> ELSE <<cur>>)
    ELSE IF cur = <<>> THEN WrapWords(Tail(ws), ws[1], w)
    ELSE IF Len(cur) + 1 + Len(ws[1]) <= w THEN WrapWords(Tail(ws), cur \o S(" ") \o ws[1], w)
    ELSE <<cur>> \o WrapWords(Tail(ws), ws[1], w)

\* _wrap(text, width) of a text without line breaks
wrap(txt, w) == IF txt = <<>> THEN <<>> ELSE WrapWords(Words(txt), <<>>, w)

NewParser == [buf |-> <<>>, in_li |-> FALSE, table |-> None, out |-> <<>>]

NewTable == [rows |-> <<>>, row |-> None, cell |-> None, header_done |-> FALSE]

flush_buf_as_paragraph(p, w) ==
    LET txt == CollapseWs(Strip(p.buf))
    IN [p EXCEPT !.buf = <<>>,
                 !.out = IF txt # <<>> THEN @ \o wrap(txt, w) \o << <<>> >> ELSE @]

handle_starttag(p, tag, w) ==
    IF tag \in {"h1", "h2", "h3", "p", "ul", "ol", "pre", "code"}
    THEN flush_buf_as_paragraph(p, w)
    ELSE IF tag = "li" THEN [flush_buf_as_paragraph(p, w) EXCEPT !.in_li = TRUE]
    ELSE IF tag = "table" THEN [flush_buf_as_paragraph(p, w) EXCEPT !.table = <<NewTable>>]
    ELSE IF tag = "tr" /\ p.table # None THEN [p EXCEPT !.table[1].row = << <<>> >>]
    ELSE IF tag \in {"th", "td"} /\ p.table # None THEN [p EXCEPT !.table[1].cell = << <<>> >>]
    ELSE p

Returns(p) == [raised |-> FALSE, p |-> p]

\* h1, h2, h3
end_heading(p, w) == [p EXCEPT !.buf = <<>>, !.out = @ \o heading_lines(p.buf, w)]

end_li(p, w) ==
    LET content == CollapseWs(Strip(p.buf))
        wrapped == wrap(content, w - Len(BULLET))
        items == [k \in DOMAIN wrapped |->
                     (IF k = 1 THEN BULLET ELSE Rep(" ", Len(BULLET))) \o wrapped[k]]
    IN [p EXCEPT !.buf = <<>>, !.in_li = FALSE,
                 !.out = IF content # <<>> THEN @ \o items \o << <<>> >> ELSE @]

\* th, td inside a table: [raised, p], raised being the AttributeError of
\* .split() or .append() called on None
end_cell(p) ==
    LET t == p.table[1]
    IN IF t.cell = None \/ t.row = None THEN [raised |-> TRUE, p |-> p]
       ELSE LET cell == CollapseWs(Strip(t.cell[1]))
                row == <<t.row[1] \o <<cell>> >>
            IN Returns([p EXCEPT !.table = <<[t EXCEPT !.row = row, !.cell = None]>>])

\* tr inside a table
end_row(p) ==
    LET t == p.table[1]
        rows_after == IF t.row # None THEN t.rows \o <<t.row[1]>> ELSE t.rows
    IN [p EXCEPT !.table = <<[t EXCEPT !.rows = rows_after, !.row = None]>>]

end_thead(p) == [p EXCEPT !.table = <<[p.table[1] EXCEPT !.header_done = TRUE]>>]

\* table, with the lines of _flush_table_structured(self._table["rows"])
end_table(p, flushed) == [p EXCEPT !.out = @ \o flushed, !.table = None]

\* pre, code
end_pre(p) ==
    IF p.buf # <<>> THEN [p EXCEPT !.out = @ \o <<RStrip(p.buf), <<>>>>, !.buf = <<>>] ELSE p

\* [raised, p], for every end tag but that of an open table
handle_endtag(p, tag, w) ==
    CASE tag \in {"h1", "h2", "h3"} -> Returns(end_heading(p, w))
      [] tag = "p" -> Returns(flush_buf_as_paragraph(p, w))
      [] tag = "li" -> Returns(end_li(p, w))
      [] tag \in {"ul", "ol"} -> Returns([p EXCEPT !.out = @ \o << <<>> >>])
      [] tag \in {"th", "td"} /\ p.table # None -> end_cell(p)
      [] tag = "tr" /\ p.table # None -> Returns(end_row(p))
      [] tag = "thead" /\ p.table # None -> Returns(end_thead(p))
      [] tag \in {"pre", "code"} -> Returns(end_pre(p))
      [] OTHER -> Returns(p)

handle_data(p, d) ==
    IF p.table # None /\ p.table[1].cell # None
    THEN [p EXCEPT !.table[1].cell = <<@[1] \o d>>]
    ELSE [p EXCEPT !.buf = @ \o d]

\* p._flush_buf_as_paragraph() and the clamped join
close_and_return(p, w) == html_return(flush_buf_as_paragraph(p, w).out, w)

TagSet == {"h1", "h2", "h3", "p", "ul", "ol", "li", "table", "thead", "tr", "th", "td",
           "pre", "code"}

DataPool == { <<"x">>, <<"1", ".", "5">>, <<"a", "b", NL, "c", "d">>,
              Rep("a", 20) \o S(NL) \o Rep("b", 20) }

Event(kind, tag, d) == [kind |-> kind, tag |-> tag, data |-> d]

InitParser ==
    /\ pc = "feeding"
    /\ crawl_run = None
    /\ crawler = None
    /\ normalized = None
    /\ parser = <<NewParser>>
    /\ events = <<>>
    /\ width \in {SWISS_MIN_LINE, SWISS_MIN_LINE + 20}
    /\ registry = None /\ calls = None
    /\ amount = None /\ currency = None /\ seed = None
    /\ data_arg = None /\ dom_output = None /\ cli_output = None
    /\ title = <<>> /\ labels = <<>> /\ values = <<>>
    /\ style_pack = "bold_unicode" /\ show_scale = TRUE /\ ascii_only = FALSE
    /\ text = <<>> /\ tamper = None /\ qc = None /\ vres = None
    /\ bar_segs = <<>>
    /\ NoSwiss
    /\ NoTable

ParserFrame ==
    UNCHANGED <<title, labels, values, width, style_pack, show_scale, ascii_only, total_width,
                   bar_width, impl, clipped, bar_segs, fields, tamper, qc, vres, rows, out, amount,
                   currency, seed, data_arg, dom_output, cli_output, registry, calls, normalized,
                   crawler, crawl_run>>

Feeding == pc = "feeding" /\ Len(events) < MaxEvents

HandleStarttag(tag) ==
    /\ Feeding
    /\ parser' = <<handle_starttag(parser[1], tag, clamp_width(width))>>
    /\ events' = Append(events, Event("start", tag, <<>>))
    /\ UNCHANGED <<pc, text>>
    /\ ParserFrame

HandleEndtag(tag) ==
    /\ Feeding
    /\ IF tag = "table" /\ parser[1].table # None
       THEN /\ parser' = <<end_table(parser[1],
                                     flush_table_structured(parser[1].table[1].rows))>>
            /\ UNCHANGED pc
       ELSE LET r == handle_endtag(parser[1], tag, clamp_width(width))
            IN /\ parser' = <<r.p>>
               /\ pc' = IF r.raised THEN "raised" ELSE pc
    /\ events' = Append(events, Event("end", tag, <<>>))
    /\ UNCHANGED text
    /\ ParserFrame

HandleData(d) ==
    /\ Feeding
    /\ parser' = <<handle_data(parser[1], d)>>
    /\ events' = Append(events, Event("data", "", d))
    /\ UNCHANGED <<pc, text>>
    /\ ParserFrame

\* the end of the input: html_to_swiss_ascii returns
CloseAndReturn ==
    /\ pc = "feeding"
    /\ events # <<>>
    /\ text' = close_and_return(parser[1], clamp_width(width))
    /\ pc' = "returned"
    /\ UNCHANGED <<parser, events>>
    /\ ParserFrame

NextParser ==
    \/ \E tag \in TagSet : HandleStarttag(tag) \/ HandleEndtag(tag)
    \/ \E d \in DataPool : HandleData(d)
    \/ CloseAndReturn

SpecParser == InitParser /\ [][NextParser]_vars

(***************************************************************************)
(* crawler/crawler.py: the tasks of crawl().  The tasks run on one event   *)
(* loop, so a task runs alone from one await to the next: from the         *)
(* semaphore to the fetch, from the fetch to the sleep, from the sleep to  *)
(* its end.                                                                *)
(***************************************************************************)
Urls == 1..MaxUrls

\* asyncio.Semaphore: acquire takes one unit of a positive value
acquire_without_counting(value) == value

acquire(value) == value - 1

release(value) == value + 1

\* the two early returns of crawl_with_semaphore
skips(c, url) == Cardinality(c.visited) >= c.max_pages \/ url \in c.visited

\* list(self.to_crawl)[:max_pages]: the first max_pages URLs in the set's order
UrlsToProcess(to_crawl, max_pages) ==
    {us \in SUBSET to_crawl : Cardinality(us) = Min2(max_pages, Cardinality(to_crawl))}

Holders == {u \in DOMAIN crawl_run[1].tasks : crawl_run[1].tasks[u] \in {"fetching", "sleeping"}}

InitCrawler ==
    /\ pc = "constructed"
    /\ \E seeds \in (SUBSET Urls) \ {{}}, mp \in 0..MaxPages, cc \in 1..MaxConcurrency :
           crawler = <<[max_pages |-> mp, concurrency |-> cc, visited |-> {},
                        to_crawl |-> seeds, crawls |-> 0]>>
    /\ crawl_run = None
    /\ parser = None /\ events = None /\ normalized = None
    /\ registry = None /\ calls = None
    /\ amount = None /\ currency = None /\ seed = None
    /\ data_arg = None /\ dom_output = None /\ cli_output = None
    /\ title = <<>> /\ labels = <<>> /\ values = <<>>
    /\ width = 0 /\ style_pack = "bold_unicode" /\ show_scale = TRUE /\ ascii_only = FALSE
    /\ text = <<>> /\ tamper = None /\ qc = None /\ vres = None
    /\ bar_segs = <<>>
    /\ NoSwiss
    /\ NoTable

CrawlerFrame ==
    UNCHANGED <<title, labels, values, width, style_pack, show_scale, ascii_only,
                total_width, bar_width, impl, text, clipped, bar_segs, fields, tamper, qc,
                vres, rows, out, amount, currency, seed, data_arg, dom_output, cli_output,
                registry, calls, parser, events, normalized>>

\* crawl() up to the gather: sitemap URLs join to_crawl, the semaphore and the tasks are made
StartCrawl ==
    /\ pc \in {"constructed", "crawled"}
    /\ crawler[1].crawls < MaxCrawls
    /\ \E found \in SUBSET Urls :
          LET to_crawl == crawler[1].to_crawl \cup found
          IN \E us \in UrlsToProcess(to_crawl, crawler[1].max_pages) :
                /\ crawler' = <<[crawler[1] EXCEPT !.to_crawl = to_crawl, !.crawls = @ + 1]>>
                /\ crawl_run' = <<[semaphore |-> crawler[1].concurrency,
                                   tasks |-> [u \in us |-> "waiting"],
                                   fetched |-> [u \in Urls |-> 0]]>>
    /\ pc' = "crawling"
    /\ CrawlerFrame

\* async with semaphore, the two checks, visited.add(url), and the call of _crawl_single
AcquireAndVisit(url) ==
    /\ pc = "crawling"
    /\ url \in DOMAIN crawl_run[1].tasks
    /\ crawl_run[1].tasks[url] = "waiting"
    /\ crawl_run[1].semaphore > 0
    /\ IF skips(crawler[1], url)
       THEN /\ crawl_run' = <<[crawl_run[1] EXCEPT !.tasks[url] = "done"]>>
            /\ UNCHANGED crawler
       ELSE /\ crawler' = <<[crawler[1] EXCEPT !.visited = @ \cup {url}]>>
            /\ crawl_run' = <<[crawl_run[1] EXCEPT !.semaphore = acquire(@),
                                                   !.tasks[url] = "fetching",
                                                   !.fetched[url] = @ + 1]>>
    /\ UNCHANGED pc
    /\ CrawlerFrame

\* _crawl_single returns and the result is saved; the task sleeps delay_ms,
\* or leaves the semaphore at once (no delay, or an exception)
FetchReturns(url, then) ==
    /\ pc = "crawling"
    /\ url \in DOMAIN crawl_run[1].tasks
    /\ crawl_run[1].tasks[url] = "fetching"
    /\ crawl_run' = <<[crawl_run[1] EXCEPT
                           !.tasks[url] = then,
                           !.semaphore = IF then = "done" THEN release(@) ELSE @]>>
    /\ UNCHANGED <<pc, crawler>>
    /\ CrawlerFrame

\* asyncio.sleep returns: the task leaves the semaphore and ends
Wake(url) ==
    /\ pc = "crawling"
    /\ url \in DOMAIN crawl_run[1].tasks
    /\ crawl_run[1].tasks[url] = "sleeping"
    /\ crawl_run' = <<[crawl_run[1] EXCEPT !.tasks[url] = "done", !.semaphore = release(@)]>>
    /\ UNCHANGED <<pc, crawler>>
    /\ CrawlerFrame

\* asyncio.gather returns when every task has ended
GatherReturns ==
    /\ pc = "crawling"
    /\ \A u \in DOMAIN crawl_run[1].tasks : crawl_run[1].tasks[u] = "done"
    /\ pc' = "crawled"
    /\ UNCHANGED <<crawler, crawl_run>>
    /\ CrawlerFrame

NextCrawler ==
    \/ StartCrawl
    \/ \E url \in Urls :
          \/ AcquireAndVisit(url)
          \/ \E then \in {"sleeping", "done"} : FetchReturns(url, then)
          \/ Wake(url)
    \/ GatherReturns

SpecCrawler == InitCrawler /\ [][NextCrawler]_vars

(***************************************************************************)
(* Calls running side by side, one per thread.  A call of                  *)
(* render_bar_chart_ascii reads the registry and then builds its rows; a   *)
(* call of html_to_swiss_ascii feeds its own parser event by event; the    *)
(* other calls are one step.                                               *)
(***************************************************************************)
Threads == 1..MaxThreads

\* style_pack = "minimal_ascii" when ascii_only, then sp = get_style_pack(style_pack):
\* the pack the call works with, and the registry as the call leaves it
select_style_pack_patching(reg, name, ascii) ==
    LET forced == IF ascii /\ name \in DOMAIN reg
                  THEN [reg EXCEPT ![name] = reg["minimal_ascii"]]
                  ELSE reg
    IN [sp |-> IF name \in DOMAIN forced THEN forced[name] ELSE forced["minimal_ascii"],
        reg |-> forced]

select_style_pack(reg, name, ascii) ==
    LET chosen == IF ascii THEN "minimal_ascii" ELSE name
    IN [sp |-> IF chosen \in DOMAIN reg THEN reg[chosen] ELSE reg["minimal_ascii"],
        reg |-> reg]

\* render_bar_chart_ascii from the looked-up pack on
render_text_with(ti, ls, vs, w, sp, scale) ==
    IF ls = <<>> THEN ti \o S(NL) \o NoData
    ELSE Join(BarChartRowsWith(ti, ls, vs, w, sp, scale))

CallGrid == << <<<<"N">>>>, <<<<"7">>>> >>

CallMenu ==
    {[fn |-> "render_bar_chart_ascii",
      args |-> << <<"T">>, << <<"A", "P", "I">> >>, <<4>>, 2, sp, TRUE, a >>] :
         sp \in {"bold_unicode", "hatch_fill"}, a \in BOOLEAN}
    \cup {[fn |-> "html_to_swiss_ascii", args |-> << <<"x", "x">>, g, 60 >>] :
             g \in {<<>>, CallGrid}}
    \cup {[fn |-> "format_currency",
           args |-> << [neg |-> TRUE, units |-> 1234, frac |-> 128], "CHF", a >>] :
             a \in BOOLEAN}
    \cup {[fn |-> "sparkline", args |-> << DemoVals, TRUE, <<1337>> >>]}
    \cup {[fn |-> "qc_block", args |-> << <<"[", "A", "]", " ", "=", "=">>, <<4>>, 2 >>]}

\* what the call returns when it runs alone
Alone(c) ==
    CASE c.fn = "render_bar_chart_ascii" ->
             render_bar_chart_ascii(c.args[1], c.args[2], c.args[3], c.args[4], c.args[5],
                                    c.args[6], c.args[7]).text
      [] c.fn = "html_to_swiss_ascii" ->
             html_return(heading_lines(c.args[1], clamp_width(c.args[3]))
                             \o flush_table_structured(c.args[2]),
                         clamp_width(c.args[3]))
      [] c.fn = "format_currency" -> format_currency(c.args[1], c.args[2], c.args[3])
      [] c.fn = "sparkline" -> sparkline(c.args[1], c.args[2], c.args[3])
      [] c.fn = "qc_block" -> qc_block(c.args[1], c.args[2], c.args[3])

InitThreads ==
    /\ pc = "running"
    /\ crawl_run = None
    /\ crawler = None
    /\ normalized = None
    /\ events = None
    /\ parser = None
    /\ registry = STYLE_PACKS
    /\ calls \in [Threads -> {[fn |-> c.fn, args |-> c.args, pc |-> "start",
                               local |-> <<>>, result |-> <<>>] : c \in CallMenu}]
    /\ amount = None /\ currency = None /\ seed = None
    /\ data_arg = None /\ dom_output = None /\ cli_output = None
    /\ title = <<>> /\ labels = <<>> /\ values = <<>>
    /\ width = 0 /\ style_pack = "bold_unicode" /\ show_scale = TRUE /\ ascii_only = FALSE
    /\ text = <<>> /\ tamper = None /\ qc = None /\ vres = None
    /\ bar_segs = <<>>
    /\ NoSwiss
    /\ NoTable

OthersUnchanged ==
    UNCHANGED <<pc, title, labels, values, width, style_pack, show_scale, ascii_only,
                   total_width, bar_width, impl, text, clipped, bar_segs, fields, tamper, qc, vres,
                   rows, out, amount, currency, seed, data_arg, dom_output, cli_output, parser,
                   events, normalized, crawler, crawl_run>>

Step(t, fn, from, to, loc, res) ==
    /\ calls[t].fn = fn
    /\ calls[t].pc = from
    /\ calls' = [calls EXCEPT ![t] = [@ EXCEPT !.pc = to, !.local = loc, !.result = res]]
    /\ OthersUnchanged

\* renderer.py lines 42-46: the pack is looked up in the registry
GetStylePack(t) ==
    LET sel == select_style_pack(registry, calls[t].args[5], calls[t].args[7])
    IN /\ Step(t, "render_bar_chart_ascii", "start", "looked_up", <<sel.sp>>, <<>>)
       /\ registry' = sel.reg

\* renderer.py lines 48-104: the rows are built with the pack and joined
RenderRows(t) ==
    LET a == calls[t].args
    IN /\ Step(t, "render_bar_chart_ascii", "looked_up", "done", <<>>,
               IF calls[t].local = <<>> THEN <<>>
               ELSE <<render_text_with(a[1], a[2], a[3], a[4], calls[t].local[1], a[6])>>)
       /\ UNCHANGED registry

\* a new _SwissHTML, then the heading is fed: p.out holds its lines
FeedHeading(t) ==
    LET a == calls[t].args
    IN /\ Step(t, "html_to_swiss_ascii", "start", "headed",
               <<heading_lines(a[1], clamp_width(a[3]))>>, <<>>)
       /\ UNCHANGED registry

\* the table is fed up to its end tag: p.out grows by the flushed table
FeedTable(t) ==
    LET a == calls[t].args
    IN /\ Step(t, "html_to_swiss_ascii", "headed", "closed",
               IF calls[t].local = <<>> THEN <<>>
               ELSE <<calls[t].local[1] \o flush_table_structured(a[2])>>, <<>>)
       /\ UNCHANGED registry

ReturnHtml(t) ==
    LET a == calls[t].args
    IN /\ Step(t, "html_to_swiss_ascii", "closed", "done", <<>>,
               IF calls[t].local = <<>> THEN <<>>
               ELSE <<html_return(calls[t].local[1], clamp_width(a[3]))>>)
       /\ UNCHANGED registry

FormatCurrencyCall(t) ==
    LET a == calls[t].args
    IN /\ Step(t, "format_currency", "start", "done", <<>>,
               <<format_currency(a[1], a[2], a[3])>>)
       /\ UNCHANGED registry

SparklineCall(t) ==
    LET a == calls[t].args
    IN /\ Step(t, "sparkline", "start", "done", <<>>, <<sparkline(a[1], a[2], a[3])>>)
       /\ UNCHANGED registry

QcBlockCall(t) ==
    LET a == calls[t].args
    IN /\ Step(t, "qc_block", "start", "done", <<>>, <<qc_block(a[1], a[2], a[3])>>)
       /\ UNCHANGED registry

NextThreads ==
    \E t \in Threads :
        \/ GetStylePack(t) \/ RenderRows(t)
        \/ FeedHeading(t) \/ FeedTable(t) \/ ReturnHtml(t)
        \/ FormatCurrencyCall(t) \/ SparklineCall(t) \/ QcBlockCall(t)

SpecThreads == InitThreads /\ [][NextThreads]_vars

(***************************************************************************)
(* Claims on the Swiss full-block band (SpecSwiss).                        *)
(***************************************************************************)
Lines == split_nl(text)

ReturnedBlock == pc = "rendered" /\ labels # <<>>

\* data row i of the returned block: after the band and the title row, and
\* in the top-level variant after the mid band too
DataLine(i) == Lines[i + (IF impl = "legacy" THEN 3 ELSE 2)]

\* C1: every row of a block returned by render_swiss_full_block_bar (top
\* band, title row, every data row, bottom band) has exactly total_width
\* characters.
C1_EveryRowHasTotalWidth ==
    ReturnedBlock => \A i \in DOMAIN Lines : Len(Lines[i]) = total_width

\* the width the value field needs: max(2, widest value)
ValueFieldNeed == Max2(2, SeqMax([i \in DOMAIN values |-> Len(Str(values[i]))]))

\* total_width cannot hold the value field, the six fixed characters, a label
\* field of 3 characters and a bar field of 1 character
Infeasible == total_width < ValueFieldNeed + 6 + 3 + 1

\* C2: every data row as assembled from the template already has length
\* total_width: the defensive pad/truncate branch is never taken, and every
\* data row ends with the trailing cap glyph with its value printed in full.
\* Stated of the widths that can hold the smallest fields.
C2_TemplateRowNeedsNoFitting ==
    (ReturnedBlock /\ ~Infeasible) =>
        /\ clipped = {}
        /\ \A i \in DOMAIN labels :
              EndsWith(DataLine(i), S(" ") \o Str(values[i]) \o S(" ") \o S(FULL_BLOCK))

\* the fill length the specification gives: round_half_up(v / vmax * B) clamped
\* to [0, B], and 0 when vmax <= 0
HalfUpFill(v, vmax, B) ==
    IF vmax > 0 THEN Max2(0, Min2(B, (2 * v * B + vmax) \div (2 * vmax))) ELSE 0

\* C5: in every renderer the number of fill glyphs drawn for value v is
\* max(0, min(B, floor(v / vmax * B + 0.5))) when vmax > 0 and 0 when
\* vmax <= 0, and the bar field is exactly B characters.
C5_FillIsHalfUpAndFieldIsB ==
    ReturnedBlock =>
        \A i \in DOMAIN labels :
            /\ Count(bar_segs[i], FULL_BLOCK) = HalfUpFill(values[i], SeqMax(values), fields[1].B)
            /\ Len(bar_segs[i]) = fields[1].B

\* C6: when total_width cannot hold the value field, the six fixed characters,
\* a label field of 3 characters and a bar field of 1 character, the call
\* fails with an error and returns no block.
C6_InfeasibleWidthFails ==
    (pc \in {"rendered", "raised"} /\ labels # <<>> /\ Infeasible) => pc = "raised"

(***************************************************************************)
(* Claims on the compact bar chart and the checks (SpecBar, SpecTamper).   *)
(***************************************************************************)
IsDefaultCall == <<style_pack, show_scale, ascii_only>> = DefaultOptions

ChartRendered == pc = "rendered" /\ labels # <<>>

\* bar row i of a rendered chart: the rows after the title and the legend
BarRowOf(ls, i) == ls[1 + (IF any_cjk_or_emoji(labels) THEN 1 + Len(labels) ELSE 0) + i]

BarRow(i) == BarRowOf(Lines, i)

\* C3: for every non-empty series and every bar width >= 1, qc_block on the
\* text render_bar_chart_ascii returned, with the same series and width,
\* yields proportions_ok = true.
C3_OwnOutputPassesProportions ==
    (ChartRendered /\ qc # None /\ width >= 1 /\ IsDefaultCall)
    => qc[1].proportions_ok

\* what the two proportion checks say of the untouched rendering
UntouchedPasses ==
    LET t == render_bar_chart_ascii(title, labels, values, width,
                                    style_pack, show_scale, ascii_only).text
    IN /\ qc_block(t, values, width).proportions_ok
       /\ validate_bar_proportions(splitlines(t), values, width).passed

\* C4: once exactly one fill glyph is added to or removed from exactly one bar
\* row of a rendering, the proportion check fails: qc_block returns
\* proportions_ok = false and validators.validate_bar_proportions returns
\* passed = false.  Stated of the renderings that pass while untouched.
C4_OneGlyphOffFails ==
    (pc = "tampered" /\ qc # None /\ UntouchedPasses)
    => (~qc[1].proportions_ok /\ ~vres[1].passed)

\* C7: a series with a CJK or emoji label gets a "Labels:" line followed by
\* one numbered legend line per label in series order, and bar row i holds
\* the index written exactly as "[i]" and no CJK or emoji character.
C7_LegendAndBracketedIndex ==
    (ChartRendered /\ any_cjk_or_emoji(labels)) =>
        /\ Lines[2] = LabelsLine
        /\ \A i \in DOMAIN labels :
              /\ Lines[2 + i] = <<" ", " ">> \o Str(i) \o <<".", " ">> \o alias_label(labels[i])
              /\ Contains(Lines[2 + Len(labels) + i], S("[") \o Str(i) \o S("]"))
              /\ ~contains_cjk_or_emoji(Lines[2 + Len(labels) + i])

\* C8: for every non-empty series and every width, all bar rows of the
\* output of render_bar_chart_ascii have the same length; below the title
\* they are exactly the lines starting with "[", one per label.
C8_BarRowsHaveOneLength ==
    ChartRendered =>
        LET ls == Lines
        IN /\ \A i \in DOMAIN labels : StartsWith(BarRowOf(ls, i), S("["))
           /\ Cardinality(BarLineIdx(ls) \ {1}) = Len(labels)
           /\ \A i, j \in DOMAIN labels : Len(BarRowOf(ls, i)) = Len(BarRowOf(ls, j))

\* a chart whose labels differ in length and whose values differ in digit
\* count and in sign has been rendered with a bar field of at least 1
C8_Witness ==
    /\ ChartRendered
    /\ width >= 1
    /\ \E i, j \in DOMAIN labels :
          /\ Len(labels[i]) # Len(labels[j])
          /\ Len(StrNat(Abs(values[i]))) # Len(StrNat(Abs(values[j])))
          /\ values[i] < 0
          /\ values[j] > 0
          /\ Count(BarRow(j), get_style_pack(style_pack).fill) > 0

\* C9: every non-blank row of the block render_bar_chart_ascii returned has
\* the same character count, so qc_block on it returns width_ok = true.
C9_OwnOutputPassesWidth ==
    (ChartRendered /\ qc # None) => qc[1].width_ok

(***************************************************************************)
(* Claims on the table flush (SpecTable).                                  *)
(***************************************************************************)
\* the data rows that have a cell in column j
RowsWithCell(j) == {i \in 2..Len(rows) : j <= Len(rows[i])}

\* C10: at the close of a table a column is numeric (decimal-aligned) if and
\* only if every data-row cell of that column is numeric-like; a column with
\* a non-numeric data cell is rendered left-justified as text.  Stated of the
\* columns that have a data cell.
C10_NumericIffEveryDataCell ==
    (pc = "flushed" /\ rows # <<>>) =>
        \A j \in DOMAIN rows[1] :
            RowsWithCell(j) # {} =>
                LET all_numeric == \A i \in RowsWithCell(j) : is_numeric_like(rows[i][j])
                    w == SetMax({Len(CellAt(rows[i], j)) : i \in DOMAIN rows})
                IN /\ (j \in numeric_cols(rows)) <=> all_numeric
                   /\ ~all_numeric =>
                         \A i \in 2..Len(rows) :
                             fmt_cell(rows, j, CellAt(rows[i], j), FALSE)
                                 = S(" ") \o LJust(CellAt(rows[i], j), w) \o S(" ")

\* the grid has been flushed and every column with a data cell is numeric-like
\* in all of its data cells or in none
Flushed == pc = "flushed" /\ rows # <<>>

UniformColumns ==
    \A j \in DOMAIN rows[1] :
        \/ \A i \in RowsWithCell(j) : is_numeric_like(rows[i][j])
        \/ \A i \in RowsWithCell(j) : ~is_numeric_like(rows[i][j])

\* the width of the border segment of column j
BorderSeg(j) ==
    LET w == col_w(rows, j)
    IN w.left + (IF w.right # 0 THEN 1 ELSE 0) + w.right + 2

\* C11: all lines emitted for a table (the three border lines, the header row
\* and every data row) have the same length, and for each column the border
\* segment is as wide as the column's rendered cell in the header row and in
\* every data row.  Stated of the grids whose columns are each numeric-like
\* in all data cells or in none.
C11_TableLinesAndSegmentsAgree ==
    (Flushed /\ UniformColumns) =>
        /\ \A a, b \in 1..(Len(out) - 1) : Len(out[a]) = Len(out[b])
        /\ \A j \in DOMAIN rows[1] :
              /\ Len(fmt_cell(rows, j, rows[1][j], TRUE)) = BorderSeg(j)
              /\ \A i \in 2..Len(rows) :
                    Len(fmt_cell(rows, j, CellAt(rows[i], j), FALSE)) = BorderSeg(j)

\* the position of the n-th "|" of a line
BarPos(line, n) ==
    CHOOSE p \in DOMAIN line :
        line[p] = "|" /\ Cardinality({q \in 1..p : line[q] = "|"}) = n

\* in the line of data row i, column j has its separator at offset p: the
\* integer part of the cell ends right before p and its fraction starts
\* right after p
SepAt(i, j, p) ==
    LET line == out[i + 2]
        sp == split_decimal_for_align(CellAt(rows[i], j))
    IN /\ BarPos(line, j) < p - Len(sp[1]) - Len(sp[2])
       /\ p + Len(sp[3]) < BarPos(line, j + 1)
       /\ line[p] = (IF sp[3] = <<>> THEN " " ELSE ".")
       /\ SubSeq(line, p - Len(sp[2]), p - 1) = sp[2]
       /\ SubSeq(line, p + 1, p + Len(sp[3])) = sp[3]
       /\ \A q \in (BarPos(line, j) + 1)..(p - Len(sp[2]) - 1) :
             line[q] = " " \/ q <= BarPos(line, j) + 1 + Len(sp[1])

\* C12: in a rendered table every numeric column has its decimal separator
\* (the dot, or the space standing in for it) at one character offset in all
\* data rows: integer parts end at the same column and fractions start at
\* the same column.
C12_SeparatorAtOneOffset ==
    Flushed =>
        \A j \in DOMAIN rows[1] \cap numeric_cols(rows) :
            \E p \in 1..(Len(out[1]) + 2) : \A i \in 2..Len(rows) : SepAt(i, j, p)

\* a numeric column whose data cells differ in digit count, one with a
\* prefix, one without a fraction
C12_Witness ==
    /\ Flushed
    /\ 1 \in numeric_cols(rows)
    /\ \E a, b, c \in 2..Len(rows) :
          /\ CellAt(rows[a], 1) = <<"1", "2", ".", "5">>
          /\ CellAt(rows[b], 1) = <<"7">>
          /\ CellAt(rows[c], 1) = <<"(", "$", "4", ".", "5", ")">>

(***************************************************************************)
(* Claims on html_to_swiss_ascii (SpecHtml).                               *)
(***************************************************************************)
HtmlReturned == pc = "returned"

\* C13 as stated: every line of the returned text has at most as many
\* characters as the width the caller passed.
C13_LinesWithinCallerWidth ==
    HtmlReturned => \A i \in DOMAIN Lines : Len(Lines[i]) <= width

\* C13: every line of the returned text has at most max(40, min(width, 80))
\* characters, width being the value the caller passed.
C13_LinesWithinClampedWidth ==
    HtmlReturned =>
        \A i \in DOMAIN Lines :
            Len(Lines[i]) <= (IF width < 40 THEN 40 ELSE IF width > 80 THEN 80 ELSE width)

\* a line longer than the width in force was cut, for a caller width below
\* 40, between 40 and 80, and above 80
C13_Witness ==
    /\ HtmlReturned
    /\ \E i \in DOMAIN out : Len(out[i]) > 80
    /\ \E i \in DOMAIN Lines : Len(Lines[i]) = (IF width < 40 THEN 40 ELSE 80)
    /\ width \in {10, 100}

(***************************************************************************)
(* Claims on the checks (SpecBar, SpecTamper, SpecFrame).                  *)
(***************************************************************************)
\* C14: qc_block and run_full_validation return without raising; an
\* exception inside the proportion check of qc_block fails that check alone,
\* and the proportion check of run_full_validation returns a result.
C14_ChecksReturnWithoutRaising ==
    (pc = "rendered" /\ qc # None) =>
        /\ qc_validate_bar_proportions(splitlines(text), values, width).raised
              => ~qc[1].proportions_ok
        /\ qc[1].width_ok = qc_validate_row_widths(splitlines(text))
        /\ qc[1].borders_ok = qc_borders(splitlines(text))
        /\ ~vres[1].raised

\* a line opens with a top-left glyph and does not close with the top-right
\* glyph of the same style, or likewise for the bottom corners
Asymmetric(lines) ==
    \E i \in DOMAIN lines : \E st \in FrameStyles :
        /\ lines[i] # <<>>
        /\ \/ lines[i][1] = BOX[st].tl /\ lines[i][Len(lines[i])] # BOX[st].tr
           \/ lines[i][1] = BOX[st].bl /\ lines[i][Len(lines[i])] # BOX[st].br

\* C15: for every text with a line that opens with a top-left frame glyph and
\* does not close with the top-right glyph of the same style (likewise
\* bottom-left and bottom-right), qc_block returns borders_ok = false and
\* validate_border_integrity returns passed = false.
C15_AsymmetricFrameFails ==
    (pc = "framed" /\ qc # None /\ vres # None /\ Asymmetric(Lines)) =>
        (~qc[1].borders_ok /\ ~vres[1].passed)

\* both proportion checks pass on the rendering of the same series and width
\* with the style pack `pack`
PassesWith(pack) ==
    LET t == render_bar_chart_ascii(title, labels, values, width, pack, show_scale, FALSE).text
    IN /\ qc_block(t, values, width).proportions_ok
       /\ validate_bar_proportions(splitlines(t), values, width).passed

\* C16: a series of positive values rendered with any of the four registry
\* style packs passes the proportion check of qc_block and of
\* validators.validate_bar_proportions.  Stated of the series whose
\* bold_unicode rendering passes both.
C16_EveryStylePackPasses ==
    (/\ ChartRendered /\ qc # None /\ ~ascii_only
     /\ style_pack \in DOMAIN STYLE_PACKS
     /\ \A i \in DOMAIN values : values[i] > 0
     /\ PassesWith("bold_unicode"))
    => (qc[1].proportions_ok /\ vres[1].passed)

\* C17: the proportion checks, given the text of render_swiss_full_block_bar
\* with its data and its bar field width, pass on the untouched text and fail
\* once one fill glyph is added to or removed from the bar field of one data
\* row.
C17_SwissBandPassesThenFails ==
    (impl = "package" /\ labels # <<>> /\ qc # None)
    => /\ pc = "rendered" /\ tamper = None => (qc[1].proportions_ok /\ vres[1].passed)
       /\ pc = "tampered" => (~qc[1].proportions_ok /\ ~vres[1].passed)

\* a line with a non-whitespace character
HasNonBlankChar(line) == \E k \in DOMAIN line : line[k] \notin Whitespace

\* the non-blank lines are none or all have one common length
OneCommonLength(lines) ==
    \A i, j \in DOMAIN lines :
        (HasNonBlankChar(lines[i]) /\ HasNonBlankChar(lines[j])) => Len(lines[i]) = Len(lines[j])

\* C18: on every list of lines the width check passes exactly when the
\* non-blank lines are none or all have one common length, and
\* qc.validate_row_widths and validators.validate_row_widths (allow_empty left
\* at its default) give the same verdict.
C18_WidthVerdictsAgree ==
    (pc = "lines" /\ qc # None /\ vres # None)
    => /\ qc[1] = OneCommonLength(out)
       /\ vres[1].passed = OneCommonLength(out)
       /\ vres[1].score = (IF vres[1].passed THEN [num |-> 1, den |-> 1]
                           ELSE [num |-> 0, den |-> 1])

\* two non-blank lines of one length around a blank line of another length,
\* both checks done
C18_Witness ==
    /\ pc = "lines" /\ qc # None /\ vres # None
    /\ Len(out) = 3
    /\ out[1] = <<"a", "b">> /\ out[2] = <<" ", " ", " ">> /\ out[3] = <<"a", " ">>
    /\ qc[1] /\ vres[1].passed

\* C19: an empty input is rendered without an error and with a placeholder in
\* the output: render_bar_chart_ascii and render_swiss_full_block_bar on an
\* empty series return a text that is not empty (the compact chart's holds
\* its "( no data )" line), and html_to_swiss_ascii on a table with zero rows
\* returns more than the same document without the table.
C19_EmptyInputGivesPlaceholder ==
    /\ (pc \in {"rendered", "raised"} /\ impl = "none" /\ labels = <<>>)
       => (pc = "rendered" /\ text # <<>> /\ Contains(text, NoData))
    /\ (pc \in {"rendered", "raised"} /\ impl = "package" /\ labels = <<>>)
       => (pc = "rendered" /\ text # <<>>)
    /\ (HtmlReturned /\ rows = <<>>)
       => text # html_return(heading_lines(title, clamp_width(width)), clamp_width(width))

DigitVal(c) == CHOOSE d \in 0..9 : DigitChar[d + 1] = c

\* the number a run of digits spells, separators skipped
RECURSIVE NatOf(_)
NatOf(s) ==
    IF s = <<>> THEN 0
    ELSE IF s[Len(s)] \in Digits THEN 10 * NatOf(SubSeq(s, 1, Len(s) - 1)) + DigitVal(s[Len(s)])
    ELSE NatOf(SubSeq(s, 1, Len(s) - 1))

C21_SeedsGiveDifferentStrings ==
    (pc = "sparked" /\ values = DemoVals /\ seed = <<42>>)
    => /\ text = sparkline(DemoVals, ascii_only, <<42>>)
       /\ text # sparkline(DemoVals, ascii_only, <<99>>)

\* C22: every ValidationResult in the list run_full_validation returns (row
\* widths, line length, accent budget, border integrity, and bar proportions
\* and parity when their arguments are given) has 0 <= score <= 1, for every
\* text, data, width >= 1 and pair of parity texts.
C22_ScoresWithinUnitInterval ==
    (pc = "validated") =>
        LET results == vres[1].results
        IN /\ Len(results) = 4 + (IF data_arg # None THEN 1 ELSE 0)
                               + (IF dom_output # None /\ cli_output # None THEN 1 ELSE 0)
           /\ \A i \in DOMAIN results :
                  /\ results[i].score.den > 0
                  /\ 0 <= results[i].score.num
                  /\ results[i].score.num <= results[i].score.den

\* all six checks ran; the accent budget is exceeded so far that its score is
\* cut to 0, and the parity score lies strictly between 0 and 1
C22_Witness ==
    /\ pc = "validated"
    /\ Len(vres[1].results) = 6
    /\ text = <<"!", "!", "!", "!">>
    /\ ~vres[1].results[3].passed /\ vres[1].results[3].score.num = 0
    /\ 0 < vres[1].results[6].score.num
    /\ vres[1].results[6].score.num < vres[1].results[6].score.den

\* C23: in every interleaving of concurrent calls of the renderers,
\* html_to_swiss_ascii, the number formatters, the generators and the QC
\* functions, a finished call has returned what it returns when run alone,
\* and the module-level registry is as it was at import.
C23_CallsDoNotInterfere ==
    (pc = "running") =>
        /\ registry = STYLE_PACKS
        /\ \A t \in Threads :
               calls[t].pc = "done" => calls[t].result = <<Alone(calls[t])>>

\* two finished renderings of one series with the same pack name, one of them
\* forced to ASCII, next to each other
C23_Witness ==
    /\ pc = "running"
    /\ calls[1].fn = "render_bar_chart_ascii" /\ calls[1].pc = "done"
    /\ calls[1].args[5] = "bold_unicode" /\ calls[1].args[7]
    /\ calls[2].fn = "render_bar_chart_ascii" /\ calls[2].pc = "done"
    /\ calls[2].args[5] = "bold_unicode" /\ ~calls[2].args[7]
    /\ calls[1].result # calls[2].result

\* C24: every field layout of the full-block band that the layout step
\* returns has label field + bar field + value field + 6 = total_width and
\* a bar field of at least one column, a shrunk label field included.
C24_FieldsSumToTotalWidth ==
    (pc = "rendered" /\ fields # <<>>) =>
        /\ fields[1].L + fields[1].B + fields[1].V + 6 = fields[1].W
        /\ fields[1].W = total_width
        /\ fields[1].B >= 1

\* C25: in the tick-label row of render_bar_chart_ascii the five labels
\* stand left to right in tick order with at least one space between two
\* consecutive labels, for every width >= 1 and every vmax.
C25_TickLabelsAreSeparated ==
    (pc = "rendered" /\ show_scale /\ labels # <<>> /\ width >= 1) =>
        LET lines == split_nl(text)
            vmax == SeqMax(values)
            lab(k) == Str(round_half_up(TICK_POSITIONS[k] * vmax, 4))
        IN CollapseWs(Strip(lines[Len(lines)]))
               = lab(1) \o S(" ") \o lab(2) \o S(" ") \o lab(3) \o S(" ") \o lab(4)
                        \o S(" ") \o lab(5)

IsPreContent(es) ==
    /\ Len(es) = 3
    /\ es[1].kind = "start" /\ es[1].tag \in {"pre", "code"}
    /\ es[2].kind = "data"
    /\ es[3].kind = "end" /\ es[3].tag = es[1].tag

\* a occurs in b as a subsequence, order kept
RECURSIVE IsSubsequence(_, _)
IsSubsequence(a, b) ==
    IF a = <<>> THEN TRUE
    ELSE IF b = <<>> THEN FALSE
    ELSE IF a[1] = b[1] THEN IsSubsequence(Tail(a), Tail(b))
    ELSE IsSubsequence(a, Tail(b))

\* C26: the content of a pre or code element is emitted verbatim: every
\* line of it that is no longer than the effective width stands unchanged,
\* in order, in the returned text.
C26_PreLinesAreVerbatim ==
    (pc = "returned" /\ IsPreContent(events)) =>
        LET w == clamp_width(width)
            content == split_nl(events[2].data)
        IN IsSubsequence(SelectSeq(content, LAMBDA l : Len(l) <= w), split_nl(text))

\* C29: whatever sequence of start tags, end tags and texts over the tag set
\* is fed, well nested or not, no handler raises, and after every table end
\* tag the parser is in the no-table state.
C29_ParserNeverRaises ==
    (events # <<>>) =>
        /\ pc # "raised"
        /\ (events[Len(events)].kind = "end" /\ events[Len(events)].tag = "table")
               => parser[1].table = None

\* C27: without a seed and with at least two distinct values, the glyph of
\* value v is the palette entry floor((v - min)/(max - min) * (size - 1) + 0.5):
\* half-up, a tie of exactly .5 taking the higher glyph.
C27_PaletteIndexIsHalfUp ==
    (pc = "sparked" /\ seed = None /\ values # <<>> /\ SeqMin(values) # SeqMax(values)) =>
        LET palette == IF ascii_only THEN SPARK_ASC ELSE SPARK_UNI
            lo == SeqMin(values)
            hi == SeqMax(values)
        IN /\ Len(text) = Len(values)
           /\ \A i \in DOMAIN values :
                  text[i] = palette[round_half_up((values[i] - lo) * (Len(palette) - 1),
                                                  hi - lo) + 1]

\* C28: every string format_currency produces is numeric-like, for every
\* value, every code of the symbol table and both separators, and
\* normalize_number with the same code and mode returns it unchanged.
C28_FormattedIsNumericLike ==
    (pc \in {"formatted", "normalized"} /\ currency \in DOMAIN CURRENCY_SYMBOLS) =>
        /\ is_numeric_like(text)
        /\ pc = "normalized" => normalized = <<text>>

\* C30: in every interleaving of the tasks of crawl(), no URL is fetched
\* more than once, the visited URLs never number more than max_pages, and
\* never more than `concurrency` tasks are between acquiring and releasing
\* the semaphore.
C30_CrawlTasksStayWithinLimits ==
    (pc \in {"crawling", "crawled"}) =>
        /\ \A u \in Urls : crawl_run[1].fetched[u] <= 1
        /\ Cardinality(crawler[1].visited) <= crawler[1].max_pages
        /\ Cardinality(Holders) <= crawler[1].concurrency

\* a second crawl() with the page limit reached in it, every unit of the
\* semaphore taken and a further task still waiting
C30_Witness ==
    /\ pc = "crawling"
    /\ crawler[1].crawls = 2
    /\ crawler[1].max_pages = 2
    /\ Cardinality(Holders) = crawler[1].concurrency
    /\ Cardinality(crawler[1].visited) = crawler[1].max_pages
    /\ \E u \in DOMAIN crawl_run[1].tasks : crawl_run[1].tasks[u] = "waiting"

====
